---------------------------- MODULE Spec2Model ----------------------------
(***************************************************************************)
(* A model of the govinfo harvesting pipeline (tools/ginfo): the date      *)
(* range splitter, the detail fetcher with its retry pass, the archive     *)
(* reconciler and the text / OCR decision procedure.                       *)
(*                                                                         *)
(* The module holds several specifications over one set of variables:      *)
(*   SpecSplit     the generators forward_range_spit / backward_range_spit *)
(*   SpecFetch     download_details / parallel_download and the worker pool*)
(*   SpecPool      one parallel_download run over a pool of two workers    *)
(*   SpecSeal      check_failed_files / seal_bulk_data over the directory  *)
(*   SpecText      header_remove / check_ocr on extracted text             *)
(*   SpecSer       serialize_metadata on one metadata document             *)
(*   SpecScrape    search_results / scrape_details / seal_results          *)
(*   SpecMade      the snapshot path of Ginfo.__init__ / seal_results      *)
(*   SpecLog       _logger / _exception on the csv files under errors/     *)
(*   SpecSession   successive calls of seal_results in one process         *)
(*   SpecOcr       ocr_to_text and the assembly of the OCR text            *)
(*   SpecSealDel   the reconciler over a directory files are removed from  *)
(*   each of them leaves the variables of the other parts at their idle    *)
(*   values.                                                               *)
(***************************************************************************)
EXTENDS Integers, Sequences, FiniteSets, TLC

VARIABLES
    split,      \* one running date-range generator (utils.py)
    files,      \* the artifacts on disk: pairs <<case_id, file_ext>>
    errs,       \* Ginfo.download_errors, the class attribute of each process
    proc,       \* each process's position inside download_details
    pd,         \* the position of parallel_download in the driver process
    calls,      \* number of direct calls of download_details so far
    runs,       \* number of calls of parallel_download so far
    tree,       \* json_details_folder: metadata files, JSON records, snapshots
    info,       \* the content of info.json
    seal,       \* the record of the calls of seal_bulk_data
    txt,        \* one call of header_remove / check_ocr and what it returned
    ser,        \* one call of serialize_metadata and where it stands
    logs,       \* the csv files under errors/ as serialization and direct
                \* calls of _logger write them
    scrape,     \* one call of seal_results and where it stands
    made        \* the snapshot files written by successive Ginfo instances

vars == <<split, files, errs, proc, pd, calls, runs, tree, info, seal, txt,
          ser, logs, scrape, made>>
splitVars == <<split>>
fetchVars == <<files, errs, proc, pd, calls, runs>>
sealVars == <<tree, info, seal>>
textVars == <<txt>>
serVars == <<ser, logs>>
scrapeVars == <<scrape>>
madeVars == <<made>>
nonSplit == <<fetchVars, sealVars, textVars, serVars, scrapeVars, madeVars>>
nonFetch == <<split, sealVars, textVars, serVars, scrapeVars, madeVars>>
nonSeal == <<split, fetchVars, textVars, serVars, scrapeVars, madeVars>>
nonText == <<split, fetchVars, sealVars, serVars, scrapeVars, madeVars>>
nonSer == <<split, fetchVars, sealVars, textVars, scrapeVars, madeVars>>
nonScrape == <<split, fetchVars, sealVars, textVars, serVars, madeVars>>
nonMade == <<split, fetchVars, sealVars, textVars, serVars, scrapeVars>>
nonLog == <<split, fetchVars, sealVars, textVars, ser, scrapeVars, madeVars>>

-----------------------------------------------------------------------------
(***************************************************************************)
(* Calendar: '%Y-%m-%d' strings are triples <<y, m, d>>, datetime objects  *)
(* are proleptic Gregorian ordinals (0001-01-01 is day 1), timedelta is a  *)
(* number of days.                                                         *)
(***************************************************************************)

IsLeap(y) == (y % 4 = 0 /\ y % 100 # 0) \/ y % 400 = 0

DaysInMonth(y, m) ==
    IF m = 2 THEN (IF IsLeap(y) THEN 29 ELSE 28)
    ELSE IF m \in {4, 6, 9, 11} THEN 30 ELSE 31

DaysBeforeYear(y) ==
    (y - 1) * 365 + ((y - 1) \div 4) - ((y - 1) \div 100) + ((y - 1) \div 400)

RECURSIVE DaysBeforeMonth(_, _)
DaysBeforeMonth(y, m) ==
    IF m = 1 THEN 0 ELSE DaysBeforeMonth(y, m - 1) + DaysInMonth(y, m - 1)

\* datetime.strptime(string, "%Y-%m-%d"): the ordinal of a date string.
p_date(string) ==
    DaysBeforeYear(string[1]) + DaysBeforeMonth(string[1], string[2]) + string[3]

RECURSIVE YearOf(_, _)
YearOf(n, y) == IF n > DaysBeforeYear(y + 1) THEN YearOf(n, y + 1) ELSE y

RECURSIVE MonthOf(_, _, _)
MonthOf(rest, y, m) ==
    IF rest > DaysInMonth(y, m) THEN MonthOf(rest - DaysInMonth(y, m), y, m + 1)
    ELSE <<m, rest>>

\* date.strftime("%Y-%m-%d"): the date string of an ordinal.
f_date(date) ==
    LET y  == YearOf(date, (date \div 366) + 1)
        md == MonthOf(date - DaysBeforeYear(y), y, 1)
    IN  <<y, md[1], md[2]>>

\* timedelta(days=range_days) and the parsed bounds.
date_range_pars(range_days, start, end) ==
    [start |-> p_date(start), end |-> p_date(end), range_ |-> range_days]

-----------------------------------------------------------------------------
(***************************************************************************)
(* Bounds of the splitter's inputs.                                        *)
(***************************************************************************)
MaxDay  == 12     \* the interval lies within FirstDate .. FirstDate + MaxDay
MaxSpan == 4      \* range_days in 1 .. MaxSpan

FirstDate == <<2020, 2, 24>>     \* the inputs cross 29 February and 1 March

InputDates == {f_date(p_date(FirstDate) + k) : k \in 0..MaxDay}

SplitInputs ==
    {in \in [mode : {"forward", "backward"}, range_days : 1..MaxSpan,
             start : InputDates, end : InputDates] :
        p_date(in.start) <= p_date(in.end)}

(***************************************************************************)
(* The generators.  A generator object runs nothing when it is created;    *)
(* each next() runs the body up to the next yield.  split.pc is the        *)
(* position: "new" (created), "loop" (suspended at the yield inside the    *)
(* while loop), "done" (the final yield was delivered).                    *)
(***************************************************************************)
SplitNew(in) ==
    [mode |-> in.mode, range_days |-> in.range_days,
     arg_start |-> in.start, arg_end |-> in.end,
     start |-> 0, end |-> 0, stop |-> 0, range_ |-> 0,
     pc |-> "new", out |-> <<>>]

\* forward: stop = end - range_ ; backward: stop = start + range_
SplitStop(mode, p) ==
    IF mode = "forward" THEN p.end - p.range_ ELSE p.start + p.range_

\* variant: the loop also runs when the boundary has reached stop
SplitMore_Inclusive(mode, start, end, stop) ==
    IF mode = "forward" THEN start <= stop ELSE end >= stop

\* the while condition
SplitMore(mode, start, end, stop) ==
    IF mode = "forward" THEN start < stop ELSE end > stop

\* the window yielded inside the loop
LoopWindow(mode, start, end, range_) ==
    IF mode = "forward" THEN <<f_date(start), f_date(start + range_)>>
    ELSE <<f_date(end - range_), f_date(end)>>

\* variant: the next window starts where the previous one started
ForwardAdvance_Stay(start, range_) == (start + range_) - range_
\* the boundary after the yield inside the loop: current +/- timedelta(days=1)
ForwardAdvance(start, range_) == (start + range_) + 1
\* variant: the next window starts on the day the previous one ended
BackwardAdvance_NoGap(end, range_) == end - range_
BackwardAdvance(end, range_) == (end - range_) - 1

\* the body from the (re)entry of the while loop to the next yield
SplitRun(s) ==
    IF SplitMore(s.mode, s.start, s.end, s.stop)
    THEN [s EXCEPT !.out = Append(@, LoopWindow(s.mode, s.start, s.end, s.range_)),
                   !.pc = "loop"]
    ELSE [s EXCEPT !.out = Append(@, <<f_date(s.start), f_date(s.end)>>),
                   !.pc = "done"]

\* resuming after the yield inside the loop
SplitResume(s) ==
    IF s.mode = "forward"
    THEN [s EXCEPT !.start = ForwardAdvance(s.start, s.range_)]
    ELSE [s EXCEPT !.end = BackwardAdvance(s.end, s.range_)]

\* first next(): parse the arguments, compute stop, run to the first yield
SplitFirst(mode) ==
    /\ split.pc = "new"
    /\ split.mode = mode
    /\ LET p == date_range_pars(split.range_days, split.arg_start, split.arg_end)
           s == [split EXCEPT !.start = p.start, !.end = p.end,
                              !.range_ = p.range_, !.stop = SplitStop(mode, p)]
       IN  split' = SplitRun(s)

\* a later next(): advance the boundary, test the loop, run to the next yield
SplitNext(mode) ==
    /\ split.pc = "loop"
    /\ split.mode = mode
    /\ split' = SplitRun(SplitResume(split))

ForwardFirst  == SplitFirst("forward")
ForwardNext   == SplitNext("forward")
BackwardFirst == SplitFirst("backward")
BackwardNext  == SplitNext("backward")


-----------------------------------------------------------------------------
(***************************************************************************)
(* DetailFetcher: download_details and parallel_download (ginfo.py).       *)
(*                                                                         *)
(* parallel_download maps download_details over a multiprocessing.Pool.    *)
(* A pool worker is another process: Ginfo.download_errors is a class      *)
(* attribute, so every process holds its own copy of the map.  A worker    *)
(* created by fork starts with the driver's value at the time the pool is  *)
(* created, a worker created by spawn starts with the value of the class   *)
(* body, {}.  Nothing a worker assigns reaches the driver's attribute.     *)
(* The pool of this specification holds one worker process: what is        *)
(* modelled here is the separation between the driver and a pool process.  *)
(***************************************************************************)
Ids     == {"a", "b"}                 \* case identifiers  package/granule
Workers == {"w1", "w2"}               \* the processes a pool can have
\* Pool(processes=processes): the workers of a pool of that size
PoolWorkers(processes) ==
    IF processes = 1 THEN {"w1"} ELSE Workers
Driver  == "driver"                   \* the process that calls the methods
Procs   == {Driver} \cup Workers
Exts    == <<"xml", "pdf">>           \* for file_ext in ['xml', 'pdf']
StartMethods == {"fork", "spawn"}

MaxBatch == 2                         \* length of composed_details

StatusOK       == 200
StatusNotFound == 404
TransportError == -1                  \* the detail recorded for an exception e
Outcomes == {StatusOK, StatusNotFound, TransportError}

NoId == ""
\* an identifier of the snapshot that is not of the form package/granule
BadId == "x"
\* [package_id, granule_id] = case_id.split('/') unpacks (line 294)
Unpacks(id) == id # BadId
EmptyMap == [x \in {} |-> 0]
\* the class attribute: a dict, or None once line 366 has run
ClassBody  == [none |-> FALSE, m |-> EmptyMap]      \* download_errors = {}
NoneValue  == [none |-> TRUE,  m |-> EmptyMap]      \* download_errors = None

Keys(e) == DOMAIN e.m
\* truthiness of the attribute:  if failed:
Truthy(e) == ~e.none /\ Keys(e) # {}

\* download_errors.pop(case_id, None)
MapPop(e, id) == [e EXCEPT !.m = [x \in (DOMAIN e.m) \ {id} |-> e.m[x]]]
\* {**download_errors, **error_}  with error_ = {case_id: detail}
MapMerge(e, id, detail) ==
    [e EXCEPT !.m = [x \in (DOMAIN e.m) \cup {id} |->
                        IF x = id THEN detail ELSE e.m[x]]]

\* path.is_file()
IsFile(fs, id, ext) == <<id, ext>> \in fs

\* a process outside download_details.  The fields after ext are the record
\* of the call: fetched maps the artifacts that were requested to what the
\* request produced, both0 and had0 say whether both files existed and
\* whether the identifier was a key of the map when the call started, and
\* same says whether the map still is what it was then.
IdleProc ==
    [pc |-> "free", id |-> NoId, failed |-> FALSE, ext |-> 1,
     fetched |-> EmptyMap, both0 |-> FALSE, had0 |-> FALSE, same |-> TRUE]

(***************************************************************************)
(* One pass of the loop body of download_details for one file_ext, from    *)
(* the response of requests.get to the end of the iteration.  o is what    *)
(* the retrieval produced: a status code, or TransportError for an         *)
(* exception.  Gives the new map, the new files and whether the iteration  *)
(* raised out of download_details.                                         *)
(***************************************************************************)
\* the try block after the request returned: the error_ of this iteration
\* (NoError when error_ stays {}), the files and the map after the try block
NoError == 0

TryBlock(e, fs, id, ext, failed, o) ==
    IF o = TransportError
    THEN \* requests.get raised: except Exception as e: error_ = {case_id: e}
         [error_ |-> TransportError, files |-> fs, errs |-> e]
    ELSE IF o = StatusOK
    THEN \* path.write_bytes(response.content); if failed: pop(case_id, None)
         IF failed
         THEN IF e.none
              THEN \* None.pop raises AttributeError inside the try block
                   [error_ |-> TransportError,
                    files |-> fs \cup {<<id, Exts[ext]>>}, errs |-> e]
              ELSE [error_ |-> NoError,
                    files |-> fs \cup {<<id, Exts[ext]>>}, errs |-> MapPop(e, id)]
         ELSE [error_ |-> NoError, files |-> fs \cup {<<id, Exts[ext]>>}, errs |-> e]
    ELSE \* error_ = {case_id: status}
         [error_ |-> o, files |-> fs, errs |-> e]

\* variant: a failure is not merged into the map
RecordError_Forget(e, id, error_) == [errs |-> e, raised |-> FALSE]

\* if error_: download_errors = {**download_errors, **error_}
\* ({**None, ...} raises TypeError outside the try block)
RecordError(e, id, error_) ==
    IF error_ = NoError THEN [errs |-> e, raised |-> FALSE]
    ELSE IF e.none THEN [errs |-> e, raised |-> TRUE]
    ELSE [errs |-> MapMerge(e, id, error_), raised |-> FALSE]

(***************************************************************************)
(* download_details as run by process p, one step per file system or       *)
(* network access: Check is path.is_file(), Get is requests.get with the   *)
(* rest of the iteration.                                                  *)
(***************************************************************************)
\* the call starts: [package_id, granule_id] = case_id.split('/') ...
Enter(p, id, failed) ==
    proc' = [proc EXCEPT ![p] =
                [pc |-> IF Unpacks(id) THEN "check" ELSE "raised",
                 id |-> id, failed |-> failed, ext |-> 1,
                 fetched |-> EmptyMap,
                 both0 |-> \A e \in DOMAIN Exts : IsFile(files, id, Exts[e]),
                 had0 |-> id \in Keys(errs[p]), same |-> TRUE]]

\* the position after the iteration for file_ext: the next one, or return
AfterIteration(r) ==
    IF r.ext < Len(Exts) THEN [r EXCEPT !.pc = "check", !.ext = @ + 1]
    ELSE [r EXCEPT !.pc = "free"]

\* variant: the existence check is skipped: every artifact is requested
SkipRequest_Never(fs, id, ext) == FALSE

\* if not path.is_file(): ... is skipped for an existing file
SkipRequest(fs, id, ext) == IsFile(fs, id, Exts[ext])

Check(p) ==
    /\ proc[p].pc = "check"
    /\ proc' = [proc EXCEPT ![p] =
                  IF SkipRequest(files, proc[p].id, proc[p].ext)
                  THEN AfterIteration(proc[p])
                  ELSE [proc[p] EXCEPT !.pc = "get"]]
    /\ UNCHANGED <<files, errs>>

Get(p, o) ==
    /\ proc[p].pc = "get"
    /\ LET r  == proc[p]
           t  == TryBlock(errs[p], files, r.id, r.ext, r.failed, o)
           rc == RecordError(t.errs, r.id, t.error_)
           r2 == [r EXCEPT !.fetched =
                      [x \in (DOMAIN r.fetched) \cup {r.ext} |->
                          IF x = r.ext THEN o ELSE r.fetched[x]],
                           !.same = @ /\ rc.errs = errs[p]]
       IN  /\ files' = t.files
           /\ errs' = [errs EXCEPT ![p] = rc.errs]
           /\ proc' = [proc EXCEPT ![p] =
                          IF rc.raised THEN [r2 EXCEPT !.pc = "raised"]
                          ELSE AfterIteration(r2)]

(***************************************************************************)
(* The driver process.                                                     *)
(***************************************************************************)
\* parallel_download: pc is "idle" outside it, "pass1" / "pass2" inside the
\* first / second loop over imap_unordered; queue holds the identifiers not yet
\* handed to a worker.  The other fields record the run: whether the driver's
\* map was empty when the pool was created, the identifiers with a failed
\* fetch in a pool worker during the first pass, the keys the driver read at
\* line 355, the identifiers handed out in retry mode, how the run ended
\* ("retried": the retry loop was exhausted), the map the driver read at line
\* 362, the rows of errors/download-log.csv, whether _logger raised, and
\* whether the snapshot file of the run was there; processes is
\* self.processes, the size of the pool; batch is composed_details, reqs
\* counts the calls of requests.get of the run per <<identifier, file_ext,
\* pass>> and ok1 holds the artifacts a first-pass request returned 200 for.
IdlePD ==
    [pc |-> "idle", queue |-> <<>>, start_empty |-> TRUE, failed1 |-> {},
     seen1 |-> {}, retried |-> <<>>, result |-> "none",
     seen2 |-> EmptyMap, log |-> <<>>, log_raised |-> FALSE, found |-> TRUE,
     processes |-> 1, batch |-> <<>>, reqs |-> EmptyMap, ok1 |-> {}]

\* one more call of requests.get for the artifact in the pass
Count(reqs, key) ==
    [k \in DOMAIN reqs \cup {key} |->
        IF k = key THEN (IF key \in DOMAIN reqs THEN reqs[key] ELSE 0) + 1
        ELSE reqs[k]]

MaxCalls == 2      \* direct calls of download_details by a client
MaxRuns  == 2      \* calls of parallel_download

Batches == UNION {[1..n -> Ids \cup {BadId}] : n \in 0..MaxBatch}

\* the file under json_details_path: absent, or a snapshot whose list
\* values hold the links of the identifiers ids, in order
Snapshots ==
    {[present |-> FALSE, ids |-> <<>>]}
        \cup {[present |-> TRUE, ids |-> b] : b \in Batches}

\* variant: an absent snapshot yields no identifier
extract_case_id_Empty(snapshot) == [raised |-> FALSE, ids |-> snapshot.ids]

\* list(self.extract_case_id(json_details_path)) of line 348: open() raises
\* FileNotFoundError for an absent file, re-raised as Exception('... is not
\* a file or directory.') (lines 262-273)
extract_case_id(snapshot) ==
    IF snapshot.present THEN [raised |-> FALSE, ids |-> snapshot.ids]
    ELSE [raised |-> TRUE, ids |-> <<>>]

RECURSIVE SeqsOf(_)
\* the orders in which a dict with the keys S can list them
SeqsOf(S) ==
    IF S = {} THEN {<<>>}
    ELSE UNION {{<<x>> \o t : t \in SeqsOf(S \ {x})} : x \in S}

\* a client calls download_details(case_id, failed) in the driver process
DirectCall(id, failed) ==
    /\ pd.pc = "idle"
    /\ proc[Driver].pc \in {"free", "raised"}
    /\ calls < MaxCalls
    /\ calls' = calls + 1
    /\ Enter(Driver, id, failed)
    /\ UNCHANGED <<nonFetch, files, errs, pd, runs>>

DirectCheck ==
    pd.pc = "idle" /\ Check(Driver) /\ UNCHANGED <<nonFetch, pd, calls, runs>>
DirectGet(o) ==
    pd.pc = "idle" /\ Get(Driver, o) /\ UNCHANGED <<nonFetch, pd, calls, runs>>

\* what a new pool worker holds in Ginfo.download_errors
WorkerStart(method, driverErrs) ==
    IF method = "fork" THEN driverErrs ELSE ClassBody

\* parallel_download up to the first imap_unordered: composed_details is read
\* from the snapshot and the pool is created; without the snapshot the call
\* raises at line 348
StartDownload(snapshot, method) ==
    /\ pd.pc = "idle"
    /\ proc[Driver].pc \in {"free", "raised"}
    /\ runs < MaxRuns
    /\ runs' = runs + 1
    /\ LET composed_details == extract_case_id(snapshot)
       IN  IF composed_details.raised
           THEN /\ pd' = [IdlePD EXCEPT !.result = "not_found",
                                        !.found = snapshot.present,
                                        !.log = pd.log,
                                        !.processes = pd.processes]
                /\ UNCHANGED <<errs, proc>>
           ELSE /\ pd' = [IdlePD EXCEPT
                            !.pc = "pass1", !.queue = composed_details.ids,
                            !.batch = composed_details.ids,
                            !.start_empty = (Keys(errs[Driver]) = {}),
                            !.found = snapshot.present,
                            !.log = pd.log,
                            !.processes = pd.processes]
                /\ errs' = [p \in Procs |->
                              IF p = Driver THEN errs[p]
                              ELSE WorkerStart(method, errs[Driver])]
                /\ proc' = [p \in Procs |-> IdleProc]
    /\ UNCHANGED <<nonFetch, files, calls>>

\* the pool hands the next identifier to a free worker
Take(w) ==
    /\ pd.pc \in {"pass1", "pass2"}
    /\ w \in PoolWorkers(pd.processes)
    /\ pd.queue # <<>>
    /\ proc[w].pc = "free"
    /\ Enter(w, Head(pd.queue), pd.pc = "pass2")
    /\ pd' = [pd EXCEPT !.queue = Tail(@),
                        !.retried = IF pd.pc = "pass2"
                                    THEN Append(@, Head(pd.queue)) ELSE @]
    /\ UNCHANGED <<nonFetch, files, errs, calls, runs>>

WorkerCheck(w) ==
    /\ pd.pc \in {"pass1", "pass2"}
    /\ Check(w)
    /\ UNCHANGED <<nonFetch, pd, calls, runs>>

WorkerGet(w, o) ==
    /\ pd.pc \in {"pass1", "pass2"}
    /\ Get(w, o)
    /\ pd' = [pd EXCEPT
                 !.failed1 = IF pd.pc = "pass1" /\ o # StatusOK
                             THEN @ \cup {proc[w].id} ELSE @,
                 !.reqs = Count(@, <<proc[w].id, proc[w].ext, pd.pc>>),
                 !.ok1 = IF pd.pc = "pass1" /\ o = StatusOK
                         THEN @ \cup {<<proc[w].id, proc[w].ext>>} ELSE @]
    /\ UNCHANGED <<nonFetch, calls, runs>>

PassOver == pd.queue = <<>> /\ \A w \in Workers : proc[w].pc = "free"

\* variant: the retry pass runs over every identifier
RetryKeys_Everything(failed) == Ids

\* download_errors = failed.keys()
RetryKeys(failed) == Keys(failed)

\* failed = self.__class__.download_errors, evaluated in the driver process
DriverView(all) == all[Driver]

\* the first loop over imap_unordered is exhausted
\*   failed = self.__class__.download_errors ; if failed: second pass
EndFirstPass ==
    /\ pd.pc = "pass1"
    /\ PassOver
    /\ LET failed == DriverView(errs) IN
       IF Truthy(failed)
       THEN /\ \E order \in SeqsOf(RetryKeys(failed)) :
                  pd' = [pd EXCEPT !.pc = "pass2", !.queue = order,
                                   !.seen1 = Keys(failed)]
            /\ UNCHANGED <<nonFetch, files, errs, proc, calls, runs>>
       ELSE /\ pd' = [pd EXCEPT !.pc = "idle", !.result = "returned",
                                !.seen1 = Keys(failed)]
            /\ errs' = [p \in Procs |-> IF p = Driver THEN errs[p] ELSE ClassBody]
            /\ proc' = [p \in Procs |-> IdleProc]
            /\ UNCHANGED <<nonFetch, files, calls, runs>>

\* _logger(map(list, zip(failed.keys(), failed.values())),
\*         filename='download-log')  (lines 363-364 and 697-727).
\* csv_row is a map object: `if csv_row:` is true whatever the map would
\* yield, the file is opened in mode 'w+', which empties it, and
\* `csv_row[0]` raises TypeError (a map object cannot be indexed) before
\* any row is written.
LogFailures(failed, log) == [log |-> <<>>, raised |-> TRUE]

\* the retry loop is exhausted (lines 362-366): the driver reads its map,
\* calls _logger and, if that returns, sets download_errors = None
EndRetryPass ==
    /\ pd.pc = "pass2"
    /\ PassOver
    /\ LET failed == DriverView(errs)
           lg == LogFailures(failed, pd.log)
       IN  /\ pd' = [pd EXCEPT !.pc = "idle", !.result = "retried",
                               !.seen2 = failed.m, !.log = lg.log,
                               !.log_raised = lg.raised]
           /\ errs' = [p \in Procs |->
                         IF p # Driver THEN ClassBody
                         ELSE IF lg.raised THEN errs[p] ELSE NoneValue]
    /\ proc' = [p \in Procs |-> IdleProc]
    /\ UNCHANGED <<nonFetch, files, calls, runs>>

\* a task raised in its worker: imap_unordered re-raises it in the driver,
\* the with block terminates the pool and parallel_download raises
Abort ==
    /\ pd.pc \in {"pass1", "pass2"}
    /\ \E w \in Workers : proc[w].pc = "raised"
    /\ pd' = [pd EXCEPT !.pc = "idle", !.queue = <<>>, !.result = "raised"]
    /\ errs' = [p \in Procs |-> IF p = Driver THEN errs[p] ELSE ClassBody]
    /\ proc' = [p \in Procs |-> IdleProc]
    /\ UNCHANGED <<nonFetch, files, calls, runs>>

InitFetchVars ==
    /\ files = {}
    /\ errs = [p \in Procs |-> ClassBody]
    /\ proc = [p \in Procs |-> IdleProc]
    /\ pd = IdlePD
    /\ calls = 0
    /\ runs = 0

NextFetch ==
    \/ \E id \in Ids, failed \in BOOLEAN : DirectCall(id, failed)
    \/ DirectCheck
    \/ \E o \in Outcomes : DirectGet(o)
    \/ \E snapshot \in Snapshots, method \in StartMethods :
          StartDownload(snapshot, method)
    \/ \E w \in Workers : Take(w)
    \/ \E w \in Workers : WorkerCheck(w)
    \/ \E w \in Workers, o \in Outcomes : WorkerGet(w, o)
    \/ EndFirstPass
    \/ EndRetryPass
    \/ Abort

-----------------------------------------------------------------------------
(***************************************************************************)
(* The archive reconciler: check_failed_files and seal_bulk_data           *)
(* (ginfo.py), over the directory json_details_folder.                     *)
(*                                                                         *)
(* A file is [dirs, name, ext]: the directories below json_details_folder, *)
(* the stem and the extension.  The stem of a metadata file or JSON record *)
(* is the case identifier <<court abbreviation, number>> (the string       *)
(* 'court-number'), the stem of a snapshot is <<"snap", k>> (its hash      *)
(* name) and the summary is <<"info", 0>>.                                 *)
(***************************************************************************)
Stems == << <<"ca1", 1>>, <<"ca1", 2>>, <<"mad", 1>> >>   \* in string order
StemSet == {Stems[i] : i \in DOMAIN Stems}
HashName == "hash"                 \* self.hash_filename
InfoName == <<"info", 0>>          \* info.json
MaxSeals == 3                      \* calls of seal_bulk_data explored

\* the [initial_date, final_date] pairs of the snapshots that may be sealed;
\* the first two share their initial date
SnapDates == << <<(<<2020, 3, 1>>), (<<2020, 3, 9>>)>>,
                <<(<<2020, 3, 1>>), (<<2020, 3, 5>>)>>,
                <<(<<2020, 2, 24>>), (<<2020, 2, 29>>)>> >>
SnapName(k) == <<"snap", k>>
\* the case identifiers listed in the page entries of each snapshot (the
\* list values of seal_results); the first two list one case in common
SnapCases == << {<<"ca1", 1>>, <<"ca1", 2>>},
               {<<"ca1", 2>>, <<"mad", 1>>},
               {<<"mad", 1>>} >>

\* download_details: json_details_folder / court / hash_filename / ext / name
DetailFile(case_id, ext) ==
    [dirs |-> <<case_id[1], HashName, ext>>, name |-> case_id, ext |-> ext]
TopFile(name) == [dirs |-> <<>>, name |-> name, ext |-> "json"]

\* the files below json_details_folder
Paths(t, summary) ==
    {DetailFile(s, "xml") : s \in t.xml}
        \cup {DetailFile(s, "json") : s \in t.json}
        \cup {TopFile(SnapName(k)) : k \in t.snaps}
        \cup (IF summary.exists THEN {TopFile(InfoName)} ELSE {})

\* glob without recursive=True: '**' and '*' both match one path segment
AnyName == <<"*", 0>>
Wild == {"**", "*"}
Match(pattern, f) ==
    /\ Len(pattern.dirs) = Len(f.dirs)
    /\ \A i \in DOMAIN f.dirs : pattern.dirs[i] \in Wild \cup {f.dirs[i]}
    /\ pattern.name \in {AnyName, f.name}
    /\ pattern.ext = f.ext
glob(paths, pattern) == {f \in paths : Match(pattern, f)}

\* check_failed_files: the stems under **/**/ext/*.ext and xml - json
check_failed_files(paths) ==
    LET stems(ext) ==
            {f.name : f \in glob(paths, [dirs |-> <<"**", "**", ext>>,
                                         name |-> AnyName, ext |-> ext])}
        data == [xml |-> stems("xml"), json |-> stems("json")]
    IN  [failed_filenames |-> data.xml \ data.json, data |-> data]

\* glob(json_details_folder / '**/**/{e}.xml') of line 607
FailedFileGlob(paths, e) ==
    glob(paths, [dirs |-> <<"**", "**">>, name |-> e, ext |-> "xml"])

\* the summary before any info.json exists (lines 595-597)
NoInfo ==
    [exists |-> FALSE, dates_covered |-> <<>>, total_json_files |-> 0,
     total_cases |-> 0, records |-> EmptyMap, time_created |-> 0]

Put(f, k, v) == [x \in DOMAIN f \cup {k} |-> IF x = k THEN v ELSE f[x]]
sorted(S) == SelectSeq(Stems, LAMBDA s : s \in S)

\* `if not d.get(case_key, None)`: the key is new under its court
Unseen_Always(d, case_key) == TRUE
Unseen(d, case_key) == case_key \notin DOMAIN d.cases

\* `if case_id in data['json']` (line 618)
HasJson_Never(case_id, data) == FALSE
HasJson(case_id, data) == case_id \in data.json

\* one iteration of the records loop (lines 613-624); the case key is the
\* collection name joined to the case identifier, one key per identifier
RecordCase(inf, case_id, data) ==
    LET case_abbr == case_id[1]
        d == IF case_abbr \in DOMAIN inf.records
             THEN inf.records[case_abbr]
             ELSE [number_of_records |-> 0, cases |-> EmptyMap]
        has_json == HasJson(case_id, data)
    IN  IF Unseen(d, case_id)
        THEN [inf EXCEPT
                !.total_json_files = @ + (IF has_json THEN 1 ELSE 0),
                !.total_cases = @ + 1,
                !.records = Put(@, case_abbr,
                    [number_of_records |-> d.number_of_records + 1,
                     cases |-> Put(d.cases, case_id,
                                   [has_json |-> has_json])])]
        ELSE inf

RECURSIVE RecordCases(_, _, _)
RecordCases(inf, ids, data) ==
    IF ids = <<>> THEN inf
    ELSE RecordCases(RecordCase(inf, Head(ids), data), Tail(ids), data)

\* json.load of a top-level *.json file: a snapshot holds its two dates,
\* info.json has no 'initial_date' key
TopContent(name) ==
    IF name = InfoName THEN [collection |-> "USCOURTS"]
    ELSE [initial_date |-> SnapDates[name[2]][1],
          final_date |-> SnapDates[name[2]][2]]

\* `date_range not in dc` (line 634), negated
InDates_Never(dc, date_range) == FALSE
InDates(dc, date_range) == \E i \in DOMAIN dc : dc[i] = date_range

\* the loop over the top-level *.json files (lines 629-637)
RECURSIVE CollectDates(_, _)
CollectDates(dc, names) ==
    IF names = <<>> THEN dc
    ELSE LET d_data == TopContent(Head(names))
         IN  IF "initial_date" \notin DOMAIN d_data    \* KeyError: pass
             THEN CollectDates(dc, Tail(names))
             ELSE LET date_range == <<d_data.initial_date, d_data.final_date>>
                  IN  IF InDates(dc, date_range)
                      THEN CollectDates(dc, Tail(names))
                      ELSE CollectDates(Append(dc, date_range), Tail(names))

\* sorted(dc, key=lambda x: p_date(x[0])): a stable sort
RECURSIVE InsertByDate(_, _)
InsertByDate(s, x) ==
    IF s = <<>> THEN <<x>>
    ELSE IF p_date(x[1]) < p_date(Head(s)[1]) THEN <<x>> \o s
    ELSE <<Head(s)>> \o InsertByDate(Tail(s), x)
RECURSIVE SortByDate(_)
SortByDate(dc) ==
    IF dc = <<>> THEN <<>>
    ELSE InsertByDate(SortByDate(SubSeq(dc, 1, Len(dc) - 1)), dc[Len(dc)])

\* lines 611-645 of seal_bulk_data: the summary written from what the
\* directory holds, the top-level files read in the order `names`
Summary(inf, data, names, now) ==
    LET counted == RecordCases(inf, sorted(data.xml), data)
    IN  [counted EXCEPT
            !.exists = TRUE,
            !.dates_covered = SortByDate(CollectDates(@, names)),
            !.time_created = now]

IdleSeal == [n |-> 0, last |-> "none", quiet |-> FALSE, twice |-> FALSE,
             prev |-> NoInfo, deleted |-> 0]
EmptyTree == [xml |-> {}, json |-> {}, snaps |-> {}]

\* a file was added to the directory
Touched(op) == [seal EXCEPT !.last = op, !.quiet = FALSE, !.twice = FALSE]

\* download_details stores the metadata file of a case (lines 315-317)
SaveMetadata(case_id) ==
    /\ case_id \notin tree.xml
    /\ tree' = [tree EXCEPT !.xml = @ \cup {case_id}]
    /\ seal' = Touched("download")
    /\ UNCHANGED <<info, nonSeal>>

\* open(xml_path, 'r') of line 429 succeeds: the metadata file is there
XmlReadable_Always(t, case_id) == TRUE
XmlReadable(t, case_id) == case_id \in t.xml

\* serialize_metadata on an existing metadata file: it writes the JSON
\* record (lines 467-469) or raises on the way there (e.g. line 453)
SerializeMetadata(case_id) ==
    /\ XmlReadable(tree, case_id)
    /\ case_id \notin tree.json
    /\ \/ /\ tree' = [tree EXCEPT !.json = @ \cup {case_id}]
          /\ seal' = Touched("serialize")
       \/ /\ seal' = [seal EXCEPT !.last = "serialize_raised",
                                  !.twice = FALSE]
          /\ UNCHANGED tree
    /\ UNCHANGED <<info, nonSeal>>

\* seal_results writes the snapshot of one date range (lines 240-250)
SealResults(k) ==
    /\ k \notin tree.snaps
    /\ tree' = [tree EXCEPT !.snaps = @ \cup {k}]
    /\ seal' = Touched("snapshot")
    /\ UNCHANGED <<info, nonSeal>>

\* variant: every call starts from the zeroed summary
LoadInfo_Fresh(inf) == NoInfo
\* lines 595-600: the zeroed summary, replaced by the content of info.json
\* when that file exists
LoadInfo(inf) == IF inf.exists THEN inf ELSE NoInfo

\* what a call of seal_bulk_data ends with
SealReturned(inf, t, names) ==
    /\ info' = Summary(LoadInfo(inf), check_failed_files(Paths(t, info)).data,
                       names, seal.n + 1)
    /\ tree' = t
    /\ seal' = [n |-> seal.n + 1, last |-> "sealed", quiet |-> TRUE,
                twice |-> seal.quiet, prev |-> info,
                deleted |-> seal.deleted]
SealRaised(t) ==
    /\ tree' = t
    /\ seal' = [seal EXCEPT !.n = @ + 1, !.last = "seal_raised",
                            !.twice = FALSE]
    /\ UNCHANGED info

\* seal_bulk_data (lines 587-647)
SealBulkData ==
    /\ seal.n < MaxSeals
    /\ LET paths == Paths(tree, info)
           failed == check_failed_files(paths).failed_filenames
           top == {f.name : f \in glob(paths, [dirs |-> <<>>,
                                     name |-> AnyName, ext |-> "json"])}
       IN  IF failed = {}
           THEN \E names \in SeqsOf(top) : SealReturned(info, tree, names)
           ELSE IF \E e \in failed : FailedFileGlob(paths, e) = {}
           THEN SealRaised(tree)       \* [0] of an empty list: IndexError
           ELSE \E done \in SUBSET failed :
                   LET t == [tree EXCEPT !.json = @ \cup done]
                   IN  IF done # failed
                       THEN SealRaised(t)   \* bulk_serialize raised
                       ELSE \E names \in SeqsOf(top) :
                               SealReturned(info, t, names)
    /\ UNCHANGED nonSeal

InitSealVars ==
    /\ tree = EmptyTree
    /\ info = NoInfo
    /\ seal = IdleSeal

NextSeal ==
    \/ \E s \in StemSet : SaveMetadata(s)
    \/ \E s \in StemSet : SerializeMetadata(s)
    \/ \E k \in DOMAIN SnapDates : SealResults(k)
    \/ SealBulkData

\* Between two calls somebody removes a metadata file, a JSON record or a
\* snapshot from json_details_folder; info.json is left where it is.
MaxDeletes == 2                    \* removals explored
DeleteFile(kind, x) ==
    /\ info.exists
    /\ seal.deleted < MaxDeletes
    /\ x \in tree[kind]
    /\ tree' = [tree EXCEPT ![kind] = @ \ {x}]
    /\ seal' = [Touched("delete") EXCEPT !.deleted = @ + 1]
    /\ UNCHANGED <<info, nonSeal>>

\* the directory of the runs with removals: cases of two courts and two
\* snapshots, and the number of calls of seal_bulk_data explored there
DelStems == {Stems[1], Stems[3]}
DelSnaps == {1, 3}
MaxDelSeals == 2

DeleteSome ==
    \/ \E s \in DelStems : DeleteFile("xml", s) \/ DeleteFile("json", s)
    \/ \E k \in DelSnaps : DeleteFile("snaps", k)

SealAgain == seal.n < MaxDelSeals /\ SealBulkData

NextSealDel ==
    \/ \E s \in DelStems : SaveMetadata(s)
    \/ \E s \in DelStems : SerializeMetadata(s)
    \/ \E k \in DelSnaps : SealResults(k)
    \/ SealAgain
    \/ DeleteSome

-----------------------------------------------------------------------------
(***************************************************************************)
(* Text: header_remove and check_ocr (ginfo.py).                           *)
(***************************************************************************)
IdleText == [pc |-> "idle"]

\* Text is a sequence of characters (strings of length one).
NL == "\n"
EndOfText == ""
Digits == {"0", "1", "2", "3", "4", "5", "6", "7", "8", "9"}
Letters == {"w", "x", "P", "p", "a", "g", "e"}
WordChars == Digits \cup Letters \cup {"_"}           \* \w
At(t, i) == IF i \in 1..Len(t) THEN t[i] ELSE EndOfText

\* the citation is put into the pattern as it is: a '.' in it is the
\* wildcard of the regular expression, any other character of the texts
\* here stands for itself
AtomMatch(a, c) ==
    /\ c # EndOfText
    /\ IF a = "." THEN c # NL ELSE a = c
CitAt(t, i, citation) ==
    \A n \in 1..Len(citation) : AtomMatch(citation[n], At(t, i + n - 1))

\* (?=\d{1,2}/\d{1,2}/\d{2,4}) at position j
DateAt(t, j) ==
    \E a \in 1..2 : \E b \in 1..2 :
        /\ \A n \in 0..(a - 1) : At(t, j + n) \in Digits
        /\ At(t, j + a) = "/"
        /\ \A n \in 1..b : At(t, j + a + n) \in Digits
        /\ At(t, j + a + b + 1) = "/"
        /\ At(t, j + a + b + 2) \in Digits
        /\ At(t, j + a + b + 3) \in Digits

\* (?=<?[Pp]a?ge?) at position k
MarkAt(t, k) ==
    LET q == IF At(t, k) = "<" THEN k + 1 ELSE k
    IN  /\ At(t, q) \in {"P", "p"}
        /\ \/ At(t, q + 1) = "g"
           \/ At(t, q + 1) = "a" /\ At(t, q + 2) = "g"

NoMatch == 0
Min(S) == CHOOSE x \in S : \A y \in S : x <= y

\* what the pattern looks at in the text t: the places where its lookaheads
\* hold and where the lines end ('.' matches anything but a newline)
Scan(t, citation) ==
    [len |-> Len(t),
     ends |-> {q \in 1..Len(t) : t[q] = NL} \cup {Len(t) + 1},
     cits |-> {i \in 1..(Len(t) + 1) : CitAt(t, i, citation)},
     dates |-> {j \in 1..Len(t) : DateAt(t, j)},
     marks |-> {k \in 1..Len(t) : MarkAt(t, k)}]

\* where .* from p stops at the latest
LineEnd(x, p) == Min({q \in x.ends : q >= p})

\* .*(?:\n.*)?(?:(?=<?[Pp]a?ge?).*) from position j: the greedy .* runs to
\* the end of the line and the optional group takes the next line if a page
\* mark stands in it; otherwise .* gives back down to a mark in its own line
TailEnd(x, j) ==
    LET e1 == LineEnd(x, j)
    IN  IF e1 <= x.len
           /\ \E k \in x.marks : e1 < k /\ k < LineEnd(x, e1 + 1)
        THEN LineEnd(x, e1 + 1)
        ELSE IF \E k \in x.marks : j <= k /\ k < e1 THEN e1
        ELSE NoMatch

\* where a match of the whole pattern that starts at s ends: the lazy .*?
\* stop at the first citation and at the first date after it for which the
\* rest matches
MatchEnd(x, s) ==
    LET e == LineEnd(x, s)
        js == {j \in x.dates : s <= j /\ j <= e /\ TailEnd(x, j) # NoMatch}
        is == IF js = {} THEN {}
              ELSE {i \in x.cits : s <= i /\ \E j \in js : i <= j}
    IN  IF is = {} THEN NoMatch
        ELSE TailEnd(x, Min({j \in js : j >= Min(is)}))

\* re.sub(regex, '', string): the leftmost match from pos on is dropped and
\* the search goes on where it ended
RECURSIVE SubFrom(_, _, _)
SubFrom(t, x, pos) ==
    LET starts == {s \in pos..x.len : MatchEnd(x, s) # NoMatch}
    IN  IF starts = {} THEN SubSeq(t, pos, x.len)
        ELSE SubSeq(t, pos, Min(starts) - 1)
                \o SubFrom(t, x, MatchEnd(x, Min(starts)))

header_remove(string, citation) == SubFrom(string, Scan(string, citation), 1)

\* str.split(sep) for a separator of one character: one piece more than
\* there are separators, the pieces between them in order
StrSplit(s, sep) ==
    LET seps == SelectSeq([i \in DOMAIN s |-> IF s[i] = sep THEN i ELSE 0],
                          LAMBDA i : i # 0)
        cut == [k \in 0..(Len(seps) + 1) |->
                   IF k = 0 THEN 0
                   ELSE IF k = Len(seps) + 1 THEN Len(s) + 1
                   ELSE seps[k]]
    IN  [k \in 1..(Len(seps) + 1) |-> SubSeq(s, cut[k - 1] + 1, cut[k] - 1)]

\* re.sub(r'\W+', ' ', text): every run of non-word characters becomes one
\* space
Collapse(t) ==
    SelectSeq([i \in DOMAIN t |->
                  IF t[i] \in WordChars THEN t[i]
                  ELSE IF i = 1 \/ t[i - 1] \in WordChars THEN " "
                  ELSE EndOfText],
              LAMBDA c : c # EndOfText)

WordWindow == 60
WordThreshold == 50
EnoughWords_AtLeast(words) == Len(words) >= WordThreshold
EnoughWords(words) == Len(words) > WordThreshold

\* lines 557-562: the citation of a court type
Citation(court_type, preferred_citation) ==
    LET parts == StrSplit(preferred_citation, ";")
    IN  IF court_type \in {"Appellate", "Bankruptcy"} THEN parts[Len(parts)]
        ELSE IF court_type = "District" THEN parts[1]
        ELSE <<>>

\* variant: the stripped text is returned with the OCR flag
check_ocr_KeepText(text, court_type, preferred_citation) ==
    LET citation == Citation(court_type, preferred_citation)
        stripped == header_remove(text, citation)
        pieces == StrSplit(Collapse(stripped), " ")
        first == SubSeq(pieces, 1, IF Len(pieces) < WordWindow
                                   THEN Len(pieces) ELSE WordWindow)
        words == SelectSeq(first, LAMBDA w : w # <<>>)
    IN  [plain_text |-> stripped, ocr |-> ~EnoughWords(words),
         citation |-> citation]

check_ocr(text, court_type, preferred_citation) ==
    LET citation == Citation(court_type, preferred_citation)
        stripped == header_remove(text, citation)
        pieces == StrSplit(Collapse(stripped), " ")
        first == SubSeq(pieces, 1, IF Len(pieces) < WordWindow
                                   THEN Len(pieces) ELSE WordWindow)
        words == SelectSeq(first, LAMBDA w : w # <<>>)
    IN  IF EnoughWords(words)
        THEN [plain_text |-> stripped, ocr |-> FALSE, citation |-> citation]
        ELSE [plain_text |-> <<>>, ocr |-> TRUE, citation |-> citation]

\* the texts and metadata the calls are made with
MaxWords == 61
WordCounts == {0, 44, 45, 49, 50, 51, 59, 60, MaxWords}
Repeat(s, n) == [i \in 1..(n * Len(s)) |-> s[((i - 1) % Len(s)) + 1]]
Leads == {<<>>, <<" ">>}
Separators == {<<" ">>, <<",", NL>>}
Headers ==
    { <<>>,
      <<"1", ":", "0", "6", " ", "1", "/", "2", "/", "2", "0", " ",
        "P", "g", " ", "1", NL>>,
      <<"0", "6", "-", "7", " ", "1", "/", "2", "/", "2", "0", NL,
        "<", "p", "a", "g", "e", ">", NL>>,
      <<"1", "x", "0", "6", " ", "0", "1", "/", "0", "2", "/", "2", "0",
        "2", "0", " ", "P", "g", "e", NL>>,
      <<"P", "g", " ", "1", ":", "0", "6", " ", "1", "/", "2", "/", "2",
        "0", NL>> }
CourtTypes == {"District", "Appellate", "Bankruptcy", "Special"}
PreferredCitations ==
    { <<"1", ":", "0", "6", ";", "0", "6", "-", "7">>,
      <<"1", ".", "0", "6", ";", "0", "6", "-", "7">>,
      <<>> }
Texts ==
    {lead \o h \o Repeat(<<"w">> \o sep, n) :
        lead \in Leads, h \in Headers, sep \in Separators, n \in WordCounts}

TextInput(text, court_type, preferred_citation) ==
    [pc |-> "input", text |-> text, court_type |-> court_type,
     preferred_citation |-> preferred_citation,
     citation |-> <<>>, plain_text |-> <<>>, ocr |-> FALSE]

\* serialize_metadata calls check_ocr on the extracted text (lines 452-453)
CheckOcr ==
    /\ txt.pc = "input"
    /\ LET r == check_ocr(txt.text, txt.court_type, txt.preferred_citation)
       IN  txt' = [txt EXCEPT !.pc = "checked", !.citation = r.citation,
                              !.plain_text = r.plain_text, !.ocr = r.ocr]
    /\ UNCHANGED nonText

\* header_remove called with the text and the citation of the court type
HeaderRemove ==
    /\ txt.pc = "input"
    /\ LET citation == Citation(txt.court_type, txt.preferred_citation)
       IN  txt' = [txt EXCEPT !.pc = "stripped", !.citation = citation,
                       !.plain_text = header_remove(txt.text, citation)]
    /\ UNCHANGED nonText

NextText == CheckOcr \/ HeaderRemove

-----------------------------------------------------------------------------
(***************************************************************************)
(* Serialization: extract_metadata, serialize_metadata, extract_text,      *)
(* _exception and _logger (ginfo.py).                                      *)
(*                                                                         *)
(* A metadata document is [main, related]: main maps a tag to the          *)
(* occurrences find_all finds in the whole document, related is the        *)
(* element with id 'id-{collection}-{access_id}' (or absent) with the      *)
(* occurrences inside it.  An occurrence is [label, text, attrs].          *)
(* A value of the record `data` is tagged with its Python type.            *)
(***************************************************************************)
Str(s) == [kind |-> "str", v |-> s]
Dict(d) == [kind |-> "dict", v |-> d]
Bool(b) == [kind |-> "bool", v |-> b]
Num(n) == [kind |-> "int", v |-> n]

\* Ginfo.tag_conversion in the order of the dict literal
MainTable ==
    << <<"docclass", "doc_class">>, <<"category", "category">>,
       <<"collectioncode", "collection">>, <<"courttype", "court_type">>,
       <<"courtcode", "court_code">>, <<"courtcircuit", "court_circuit">>,
       <<"courtstate", "court_state">>, <<"casenumber", "case_number">>,
       <<"caseoffice", "case_office">>, <<"branch", "branch">>,
       <<"cause", "cause">>, <<"naturesuit", "nature_of_suit">>,
       <<"naturesuitcode", "nature_of_suit_code">>,
       <<"casetype", "case_type">>, <<"recordcreationdate", "date_created">>,
       <<"recordchangedate", "date_changed">>,
       <<"dateingested", "date_ingested">>,
       <<"languageterm", "language_term">>, <<"party", "party">>,
       <<"identifier", "preferred_citation">> >>
RelatedTable ==
    << <<"url", "url">>, <<"accessid", "id">>, <<"state", "state">>,
       <<"title", "case_name">>, <<"dockettext", "docket_text">>,
       <<"dateissued", "date_issued">>, <<"partnumber", "part_number">> >>
TagTable ==
    [i \in 1..(Len(MainTable) + Len(RelatedTable)) |->
        IF i <= Len(MainTable)
        THEN [doc_type |-> "main", tag |-> MainTable[i][1],
              key |-> MainTable[i][2]]
        ELSE [doc_type |-> "related",
              tag |-> RelatedTable[i - Len(MainTable)][1],
              key |-> RelatedTable[i - Len(MainTable)][2]]]

NoLabel == "none"
Occurrence(label, text, attrs) ==
    [label |-> label, text |-> text, attrs |-> attrs]

\* str.lower() and str.replace(old, new) on the characters of a role
LowerCase == ("P" :> "p") @@ ("A" :> "a") @@ ("D" :> "d")
Lower(s) ==
    [i \in DOMAIN s |-> IF s[i] \in DOMAIN LowerCase THEN LowerCase[s[i]]
                        ELSE s[i]]
Replace(s, old, new) == [i \in DOMAIN s |-> IF s[i] = old THEN new ELSE s[i]]
\* inner_tag.attrs['role'].lower().replace('-', ' ').replace(' ', '_')
PartyKey(role) == Replace(Replace(Lower(role), "-", " "), " ", "_")

\* variant: a full name is never found in the list of its role
InList_Never(x, list) == FALSE
\* `fullname not in parties[party_key]`
InList(x, list) == \E i \in DOMAIN list : list[i] = x

\* one pass of the loop over tag_content (lines 403-420); st holds data,
\* parties and the exception raised so far
NoException == "none"
RECURSIVE Occurrences(_, _, _, _)
Occurrences(st, tag, key, tag_content) ==
    IF tag_content = <<>> \/ st.raised # NoException THEN st
    ELSE
      LET inner_tag == Head(tag_content)
          next ==
            IF inner_tag.label = "PDF rendition"
            THEN [st EXCEPT !.data = Put(@, "pdf_url", Str(inner_tag.text))]
            ELSE IF inner_tag.label = "Content Detail"
            THEN [st EXCEPT !.data = Put(@, "url", Str(inner_tag.text))]
            ELSE IF tag # "party"
            THEN [st EXCEPT !.data = Put(@, key, Str(inner_tag.text))]
            ELSE IF "role" \notin DOMAIN inner_tag.attrs
            THEN [st EXCEPT !.raised = "KeyError"]
            ELSE IF "fullname" \notin DOMAIN inner_tag.attrs
            THEN \* the role's list exists by now; data['party'] is the same
                 \* dict object once it was assigned
                 LET party_key == PartyKey(inner_tag.attrs.role)
                     parties == IF party_key \in DOMAIN st.parties
                                THEN st.parties
                                ELSE Put(st.parties, party_key, <<>>)
                 IN  [st EXCEPT !.raised = "KeyError", !.parties = parties,
                         !.data = IF @["party"].kind = "dict"
                                  THEN Put(@, "party", Dict(parties)) ELSE @]
            ELSE
              LET party_key == PartyKey(inner_tag.attrs.role)
                  party_value == IF party_key \in DOMAIN st.parties
                                 THEN st.parties[party_key] ELSE <<>>
                  fullname == inner_tag.attrs.fullname
                  list == IF InList(fullname, party_value) THEN party_value
                          ELSE Append(party_value, fullname)
                  parties == Put(st.parties, party_key, list)
              IN  [st EXCEPT !.parties = parties,
                             !.data = Put(@, "party", Dict(parties))]
      IN  Occurrences(next, tag, key, Tail(tag_content))

\* find_all(tag) and find_all(tag, attrs={'type': 'preferred citation'})
find_all(elements, tag) ==
    LET found == IF tag \in DOMAIN elements THEN elements[tag] ELSE <<>>
    IN  IF tag # "identifier" THEN found
        ELSE SelectSeq(found, LAMBDA o : "type" \in DOMAIN o.attrs
                                /\ o.attrs.type = "preferred citation")

\* extract_metadata (lines 382-421): the record after the call and the
\* exception it raised, if any
extract_metadata(xml_tree, data, tag, key, doc_type) ==
    IF doc_type = "related" /\ ~xml_tree.related.present
    THEN [data |-> data, raised |-> "AttributeError"]   \* None.find_all
    ELSE
      LET xml_elements == IF doc_type = "related" THEN xml_tree.related.tags
                          ELSE xml_tree.main
          st == Occurrences([data |-> Put(data, key, Str("")),
                             parties |-> EmptyMap, raised |-> NoException],
                            tag, key, find_all(xml_elements, tag))
      IN  [data |-> st.data, raised |-> st.raised]

\* the try block of serialize_metadata (lines 433-437) from table entry i
RECURSIVE ExtractFrom(_, _, _)
ExtractFrom(xml_tree, r, i) ==
    IF i > Len(TagTable) \/ r.raised # NoException THEN r
    ELSE ExtractFrom(xml_tree,
                     extract_metadata(xml_tree, r.data, TagTable[i].tag,
                                      TagTable[i].key, TagTable[i].doc_type),
                     i + 1)

\* _logger (lines 697-727) on the csv files under errors/
NoLogs == [exception |-> <<>>, process |-> <<>>, download |-> <<>>]
Logger(lg, csv_row, mode, filename) ==
    IF csv_row = <<>> THEN lg
    ELSE IF mode = "a+" THEN [lg EXCEPT ![filename] = Append(@, csv_row)]
    ELSE [lg EXCEPT ![filename] = <<csv_row>>]

\* _exception (lines 729-749): a row goes to exception-log only for an
\* error_root of at most one element
Exception(lg, error_root) ==
    IF Len(error_root) <= 1
    THEN Logger(lg, error_root \o <<"NameError", "traceback">>, "a+",
                "exception")
    ELSE lg

\* the documents: a court type, party occurrences, two identifiers of which
\* one is the preferred citation, and the related element or none
MaxParties == 3
NoAttrs == EmptyMap
PartyOccurrences ==
    {Occurrence(NoLabel, "", a) :
        a \in {[role |-> <<"P", "-", "A">>, fullname |-> "X"],
               [role |-> <<"p", " ", "a">>, fullname |-> "X"],
               [role |-> <<"p", " ", "a">>, fullname |-> "Y"],
               [role |-> <<"D">>, fullname |-> "X"],
               [fullname |-> "Y"]}}
PartyLists == UNION {[1..n -> PartyOccurrences] : n \in 0..MaxParties}
CitationText == <<"1", ":", "0", "6", ";", "0", "6", "-", "7">>
MainTags(parties) ==
    ("courttype" :> <<Occurrence(NoLabel, "District", NoAttrs)>>)
    @@ ("party" :> parties)
    @@ ("identifier" :>
          <<Occurrence(NoLabel, CitationText,
                       [type |-> "preferred citation"]),
            Occurrence(NoLabel, <<"9">>, [type |-> "local"])>>)
RelatedElements ==
    {[present |-> FALSE, tags |-> EmptyMap],
     [present |-> TRUE,
      tags |-> ("url" :> <<Occurrence("PDF rendition", "pdf-link", NoAttrs),
                           Occurrence("Content Detail", "details-link",
                                      NoAttrs)>>)
               @@ ("title" :> <<Occurrence(NoLabel, "A v. B", NoAttrs)>>)]}
Documents ==
    {[main |-> MainTags(ps), related |-> rel] :
        ps \in PartyLists, rel \in RelatedElements}

\* what stands at pdf/{filename}.pdf: nothing, a document with a text layer,
\* a document whose text layer holds a few words, a scanned document, or a
\* file pdftotext and pdfinfo fail on
PdfKinds == {"absent", "native", "sparse", "scanned", "broken"}
PageHeader == <<"1", ":", "0", "6", " ", "1", "/", "2", "/", "2", "0", " ",
                "P", "g", " ", "1", NL>>
NativeText == PageHeader \o Repeat(<<"w", " ">>, WordThreshold + 1)
SparseText == PageHeader \o Repeat(<<"w", " ">>, 2)
OcrText == PageHeader \o Repeat(<<"w", NL>>, 2)

\* extract_text (lines 487-511): the text read and pdftotext's stderr
extract_text(pdf) ==
    IF pdf = "native" THEN [text |-> NativeText, error |-> ""]
    ELSE IF pdf = "sparse" THEN [text |-> SparseText, error |-> ""]
    ELSE IF pdf = "broken" THEN [text |-> <<>>, error |-> "Syntax Error"]
    ELSE [text |-> <<>>, error |-> ""]
\* get_page_count: 0 when pdfinfo fails
get_page_count(pdf) ==
    IF pdf \in {"native", "sparse", "scanned"} THEN 2 ELSE 0
\* the pages ocr_to_text yields, joined in page order
ocr_to_text(pdf) == IF pdf \in {"sparse", "scanned"} THEN OcrText ELSE <<>>

IdleSer == [pc |-> "idle"]
SerInput(doc, pdf, ocr_conversion) ==
    [pc |-> "start", doc |-> doc, pdf |-> pdf,
     ocr_conversion |-> ocr_conversion, data |-> EmptyMap,
     caught |-> <<>>, plain_text |-> <<>>, citation |-> <<>>,
     page_count |-> 0, json |-> EmptyMap, written |-> FALSE]

XmlPath == "xml/case.xml"
PdfPath == "pdf/case.pdf"
JsonPath == "json/case.json"

\* lines 429-439: the extraction pass inside its try block
SerExtract ==
    /\ ser.pc = "start"
    /\ LET r == ExtractFrom(ser.doc, [data |-> EmptyMap,
                                      raised |-> NoException], 1)
           error_root == <<XmlPath, r.raised>>
       IN  IF r.raised = NoException
           THEN /\ ser' = [ser EXCEPT !.pc = "extracted", !.data = r.data]
                /\ UNCHANGED logs
           ELSE /\ ser' = [ser EXCEPT !.pc = "extracted", !.data = r.data,
                                      !.caught = Append(@, error_root)]
                /\ logs' = Exception(logs, error_root)
    /\ UNCHANGED nonSer

\* lines 441-453: text extraction, page count and the OCR decision; the
\* lookups data['court_type'] and data['preferred_citation'] raise KeyError
\* when the extraction pass did not get that far
SerText ==
    /\ ser.pc = "extracted"
    /\ LET t == extract_text(ser.pdf)
           data == Put(Put(ser.data, "blocked", Bool(FALSE)),
                       "page_count", Num(get_page_count(ser.pdf)))
           error_root == <<PdfPath, t.error>>
           caught == IF t.error # "" THEN Append(ser.caught, error_root)
                     ELSE ser.caught
           lg == IF t.error # "" THEN Exception(logs, error_root) ELSE logs
       IN  /\ logs' = lg
           /\ IF {"court_type", "preferred_citation"} \subseteq DOMAIN data
              THEN LET r == check_ocr(t.text, data["court_type"].v,
                                      data["preferred_citation"].v)
                   IN  ser' = [ser EXCEPT
                           !.pc = "checked", !.caught = caught,
                           !.data = Put(data, "ocr", Bool(r.ocr)),
                           !.page_count = get_page_count(ser.pdf),
                           !.plain_text = r.plain_text,
                           !.citation = r.citation]
              ELSE ser' = [ser EXCEPT !.pc = "raised", !.caught = caught,
                                      !.data = data]
    /\ UNCHANGED nonSer

\* lines 456-464: the OCR pass, which may raise inside its try block
SerOcr ==
    /\ ser.pc = "checked"
    /\ ser.data["ocr"].v
    /\ ser.ocr_conversion
    /\ \/ /\ ser' = [ser EXCEPT !.pc = "ocred",
                   !.plain_text = header_remove(ocr_to_text(ser.pdf),
                                                ser.citation)]
          /\ UNCHANGED logs
       \/ LET error_root == <<XmlPath, "OSError">>
          IN  /\ ser' = [ser EXCEPT !.pc = "ocred",
                                    !.caught = Append(@, error_root)]
              /\ logs' = Exception(logs, error_root)
    /\ UNCHANGED nonSer

\* lines 466-485: the JSON record and the row of process-log
SerWrite ==
    /\ \/ ser.pc = "ocred"
       \/ ser.pc = "checked" /\ ~(ser.data["ocr"].v /\ ser.ocr_conversion)
    /\ LET data == Put(ser.data, "plain_text", Str(ser.plain_text))
           csv_row == IF ser.page_count = 0
                      THEN <<JsonPath, "Not processed">>
                      ELSE IF Len(ser.plain_text) = 0
                      THEN <<JsonPath, "PDF is problematic">>
                      ELSE <<JsonPath>>
       IN  /\ ser' = [ser EXCEPT !.pc = "written", !.data = data,
                                 !.json = data, !.written = TRUE]
           /\ logs' = IF Len(csv_row) > 1
                      THEN Logger(logs, csv_row, "a+", "process") ELSE logs
    /\ UNCHANGED nonSer

InitSerVars ==
    /\ ser = IdleSer
    /\ logs = NoLogs

NextSer == SerExtract \/ SerText \/ SerOcr \/ SerWrite

(***************************************************************************)
(* The OCR pass in detail: ocr_to_text (utils.py) and its consumer in      *)
(* serialize_metadata (lines 456-461).  The pages of the PDF go through    *)
(* tesseract in batches; the tasks of a batch run in a process pool and    *)
(* are taken as they complete.  ser holds the state of the generator and   *)
(* of its consumer.                                                        *)
(***************************************************************************)
MaxPages == 4                      \* page_count in 0 .. MaxPages
MaxBatchSize == 2                  \* batch_size in 1 .. MaxBatchSize
CpuCounts == {1, 3}                \* os.cpu_count()
PageNames == <<"p1", "p2", "p3", "p4", "p5", "p6">>
\* what tesseract reads on a page of the PDF
PageText(n) == <<PageNames[n]>>

\* `if cpus > batch_size: batch_size = cpus`
BatchSize(batch_size, cpus) == IF cpus > batch_size THEN cpus ELSE batch_size

OcrNew(page_count, batch_size, cpus) ==
    [pc |-> "loop", page_count |-> page_count,
     batch_size |-> BatchSize(batch_size, cpus), iter_ |-> 0, page |-> 1,
     tasks |-> {}, yielded |-> <<>>, failed |-> {}, ocr_text |-> <<>>]

\* the value of tasks[f]: i + 1 + iter_ * batch_size
PageNumber(i, iter_, batch_size) == i + 1 + iter_ * batch_size

\* one iteration of `for page in range(1, page_count + 1, batch_size)` up to
\* the submission of its tasks: convert_from_path renders first_page ..
\* last_page, path i of the result is page first_page + i of the PDF
OcrBatch ==
    /\ ser.pc = "loop"
    /\ ser.page <= ser.page_count
    /\ LET last_page == IF ser.page + ser.batch_size - 1 < ser.page_count
                        THEN ser.page + ser.batch_size - 1
                        ELSE ser.page_count
       IN  ser' = [ser EXCEPT
              !.pc = "batch",
              !.tasks = {[actual |-> ser.page + i,
                          number |-> PageNumber(i, ser.iter_, ser.batch_size)] :
                            i \in 0..(last_page - ser.page)}]
    /\ UNCHANGED <<logs, nonSer>>

\* as_completed hands over a finished task: its result is yielded with its
\* page number, or its exception is printed and the page is left out
OcrCompleted(n, ok) ==
    /\ ser.pc = "batch"
    /\ \E task \in ser.tasks :
          /\ task.actual = n
          /\ ser' = [ser EXCEPT
                !.tasks = @ \ {task},
                !.yielded = IF ok THEN Append(@, <<PageText(task.actual),
                                                   task.number>>)
                            ELSE @,
                !.failed = IF ok THEN @ ELSE @ \cup {task.actual}]
    /\ UNCHANGED <<logs, nonSer>>

\* every task of the batch was taken: iter_ += 1 and the next batch
OcrBatchEnd ==
    /\ ser.pc = "batch"
    /\ ser.tasks = {}
    /\ ser' = [ser EXCEPT !.pc = "loop", !.iter_ = @ + 1,
                          !.page = @ + ser.batch_size]
    /\ UNCHANGED <<logs, nonSer>>

\* variant: the pages stay in the order of completion
SortByPage_AsCompleted(bundle) == bundle
\* sorted(bundle, key=lambda x: x[1]): a stable sort by page number
RECURSIVE SortByPage(_)
SortByPage(bundle) ==
    IF bundle = <<>> THEN <<>>
    ELSE LET n == Len(bundle)
             rest == SortByPage(SubSeq(bundle, 1, n - 1))
             before == SelectSeq(rest, LAMBDA x : x[2] <= bundle[n][2])
             after == SelectSeq(rest, LAMBDA x : x[2] > bundle[n][2])
         IN  before \o <<bundle[n]>> \o after

\* '\n'.join(texts)
RECURSIVE Join(_, _)
Join(sep, texts) ==
    IF texts = <<>> THEN <<>>
    ELSE IF Len(texts) = 1 THEN texts[1]
    ELSE texts[1] \o <<sep>> \o Join(sep, Tail(texts))

\* the generator is exhausted: lines 458-460 of serialize_metadata
OcrAssemble ==
    /\ ser.pc = "loop"
    /\ ser.page > ser.page_count
    /\ LET numpage_text_bundle == SortByPage(ser.yielded)
       IN  ser' = [ser EXCEPT
              !.pc = "assembled",
              !.ocr_text = Join(NL, [i \in DOMAIN numpage_text_bundle |->
                                        numpage_text_bundle[i][1]])]
    /\ UNCHANGED <<logs, nonSer>>

NextOcr ==
    \/ OcrBatch
    \/ \E n \in 1..MaxPages, ok \in BOOLEAN : OcrCompleted(n, ok)
    \/ OcrBatchEnd
    \/ OcrAssemble

(***************************************************************************)
(* The callers of _logger, one call per step.                              *)
(***************************************************************************)
MaxRows == 2                       \* rows appended to one file
ProcessRows == {<<JsonPath, "Not processed">>,
                <<JsonPath, "PDF is problematic">>}
ErrorRoots == {<<XmlPath>>, <<PdfPath>>, <<XmlPath, "KeyError">>}
DownloadRows == {<<"a", StatusNotFound>>, <<"b", TransportError>>}

\* _exception(error_root, filename) (lines 729-749)
LogException(error_root) ==
    /\ Len(logs.exception) < MaxRows
    /\ logs' = Exception(logs, error_root)
    /\ UNCHANGED nonLog

\* _logger(csv_row, mode='a+', filename='process-log') (line 485)
LogProcess(csv_row) ==
    /\ Len(logs.process) < MaxRows
    /\ logs' = Logger(logs, csv_row, "a+", "process")
    /\ UNCHANGED nonLog

\* _logger(csv_row, filename='download-log') with a list for csv_row: the
\* mode is the default 'w+'
LogDownload(csv_row) ==
    /\ logs' = Logger(logs, csv_row, "w+", "download")
    /\ UNCHANGED nonLog

\* the call of lines 363-364 at the end of a retry pass of parallel_download
LogRetryFailures ==
    /\ logs' = [logs EXCEPT !.download = LogFailures(EmptyMap, @).log]
    /\ UNCHANGED nonLog

NextLog ==
    \/ \E error_root \in ErrorRoots : LogException(error_root)
    \/ \E csv_row \in ProcessRows : LogProcess(csv_row)
    \/ \E csv_row \in DownloadRows : LogDownload(csv_row)
    \/ LogRetryFailures

-----------------------------------------------------------------------------
(***************************************************************************)
(* Scraping and sealing: search_results, scrape_details, seal_results      *)
(* (ginfo.py).  A rendered results page is [record_number, last_page,      *)
(* links]: the record count (NoCount when the element is absent),          *)
(* the label before the next control (NoNext when there is none) and the   *)
(* share links found on it.                                                *)
(***************************************************************************)
\* list(backward_range_spit(range_days, start, end)): the generator run to
\* its end
RECURSIVE Drain(_)
Drain(s) == IF s.pc = "done" THEN s.out ELSE Drain(SplitRun(SplitResume(s)))
backward_range_spit(range_days, start, end) ==
    LET p == date_range_pars(range_days, start, end)
        new == SplitNew([mode |-> "backward", range_days |-> range_days,
                         start |-> start, end |-> end])
    IN  Drain(SplitRun([new EXCEPT !.start = p.start, !.end = p.end,
                                   !.range_ = p.range_,
                                   !.stop = SplitStop("backward", p)]))

SearchSpan == 365               \* backward_range_spit(365, ...)
RecordCeiling == 10000          \* the result-size ceiling of the service
PageSizes == {10, 50, 100}      \* Ginfo.page_size
page_offset == 0                \* kwargs.get('page_offset', 0)
FinalDate == <<2020, 1, 2>>
MaxYears == 2                   \* the interval starts up to MaxYears early
InitialDates == {<<2020 - k, 1, 1>> : k \in 0..(MaxYears - 1)}

NoNext == 0
NoCount == -1
\* the first page of a window as the site renders it: no results, one page
\* of results, three pages, and more records than the ceiling
FirstPages ==
    {[record_number |-> NoCount, last_page |-> NoNext, links |-> <<>>],
     [record_number |-> 0, last_page |-> NoNext, links |-> <<>>],
     [record_number |-> 2, last_page |-> NoNext, links |-> <<"a", "b">>],
     [record_number |-> 250, last_page |-> 3, links |-> <<"a">>],
     [record_number |-> 12000, last_page |-> 120, links |-> <<"a">>]}
LaterLinks == {<<>>, <<"b">>}

\* lines 202-215: the number of pages; 10000 / page_size is a float
MaxPage(first, page_size) ==
    LET record_number == IF first.record_number = NoCount THEN 0
                         ELSE first.record_number
    IN  IF first.last_page = NoNext THEN [float |-> FALSE, n |-> 0]
        ELSE IF record_number <= RecordCeiling
        THEN [float |-> FALSE, n |-> first.last_page]
        ELSE [float |-> TRUE, n |-> RecordCeiling \div page_size]

\* the keys of lines 217 and 225
FirstKey(dates) == <<dates[1], "-to-", dates[2], page_offset + 1>>
LaterKey(dates, page) == <<dates[1], "_to_", dates[2], page + 1>>

\* len(value) of a list-valued entry (line 240)
CountLinks_PerEntry(value) == 1
CountLinks_Twice(value) == 2 * Len(value)
CountLinks(value) == Len(value)

\* a call of seal_results.  The fields after session record the last call of
\* scrape_details that got past its first page: that page, the number of
\* pages it put into its result, and the exception that ended the run.
IdleScrape == [pc |-> "idle"]
ScrapeNew(initial_date, final_date, page_size) ==
    [pc |-> "scraping", initial_date |-> initial_date,
     final_date |-> final_date, page_size |-> page_size,
     date_ranges |-> backward_range_spit(SearchSpan, initial_date,
                                         final_date),
     done |-> {}, data |-> EmptyMap, number_of_keys |-> 0,
     rendered |-> {}, snapshot |-> EmptyMap, session |-> "live",
     run |-> 1, on_quit |-> FALSE, order |-> <<>>, ids |-> <<>>,
     attempted |-> FALSE,
     first |-> [record_number |-> NoCount, last_page |-> NoNext,
                links |-> <<>>],
     pages |-> 0, cause |-> "none"]

\* one window goes through scrape_details and its result through the loop
\* of seal_results (lines 236-240)
ScrapeReturned(i, first, later) ==
    LET dates == scrape.date_ranges[i]
        pages == {LaterKey(dates, page) : page \in DOMAIN later}
        item == [k \in {FirstKey(dates)} \cup pages |->
                    IF k = FirstKey(dates) THEN first.links
                    ELSE later[k[4] - 1]]
        RECURSIVE Sum(_)
        Sum(keys) == IF keys = {} THEN 0
                     ELSE LET k == CHOOSE x \in keys : TRUE
                          IN  CountLinks(item[k]) + Sum(keys \ {k})
        \* the keys of the item in the order scrape_details stored them
        keys == <<FirstKey(dates)>>
                    \o [page \in DOMAIN later |-> LaterKey(dates, page)]
    IN  scrape' = [scrape EXCEPT
            !.done = @ \cup {i},
            !.data = [k \in DOMAIN @ \cup DOMAIN item |->
                         IF k \in DOMAIN item THEN item[k] ELSE @[k]],
            !.order = @ \o SelectSeq(keys, LAMBDA k : k \notin DOMAIN scrape.data),
            !.number_of_keys = @ + Sum(DOMAIN item),
            !.rendered = @ \cup {<<i, first.links>>}
                           \cup {<<i, later[p]>> : p \in DOMAIN later},
            !.attempted = TRUE, !.first = first,
            !.pages = Cardinality(DOMAIN item)]

\* scrape_details(dates) on pages that render and parse: it returns the
\* entries of its window, or range(1, max_page) is handed the float of line
\* 215 and raises TypeError after the first page was recorded;
\* imap_unordered re-raises it in seal_results
ScrapeDetails ==
    /\ scrape.pc = "scraping"
    /\ scrape.session = "live"
    /\ \E i \in DOMAIN scrape.date_ranges \ scrape.done :
       \E first \in FirstPages :
          LET max_page == MaxPage(first, scrape.page_size)
          IN  IF max_page.float
              THEN scrape' = [scrape EXCEPT
                      !.pc = "raised", !.cause = "TypeError",
                      !.attempted = TRUE, !.first = first, !.pages = 1]
              ELSE \E later \in [1..(IF max_page.n > 0 THEN max_page.n - 1
                                      ELSE 0) -> LaterLinks] :
                      ScrapeReturned(i, first, later)
    /\ UNCHANGED nonScrape

\* scrape_details(dates) raises on a page: the session fails to load it
\* (line 122; driver.get on a session that was quit always fails), or a
\* share link has no '<num> - <name>' title (lines 161-162);
\* imap_unordered re-raises it in seal_results
ScrapeRaises ==
    /\ scrape.pc = "scraping"
    /\ \E i \in DOMAIN scrape.date_ranges \ scrape.done :
       \E cause \in {"WebDriverException", "IndexError"} :
          /\ scrape.session = "quit" => cause = "WebDriverException"
          /\ scrape' = [scrape EXCEPT !.pc = "raised", !.cause = cause,
                                      !.on_quit = (scrape.session = "quit")]
    /\ UNCHANGED nonScrape

\* lines 242-252: the snapshot is written and the session is quit
WriteSnapshot ==
    /\ scrape.pc = "scraping"
    /\ scrape.done = DOMAIN scrape.date_ranges
    /\ scrape' = [scrape EXCEPT
            !.pc = "sealed", !.session = "quit",
            !.snapshot = [lists |-> scrape.data, keys |-> scrape.order,
                          initial_date |-> scrape.initial_date,
                          final_date |-> scrape.final_date,
                          update_date |-> "today",
                          total_cases |-> scrape.number_of_keys]]
    /\ UNCHANGED nonScrape

\* the link record find_link makes of a share link (lines 159-164): the
\* url attribute is the details path of the case
DetailsPrefix == "/app/details/"
LinkRecord(link) == [num |-> "1", name |-> link, url |-> <<DetailsPrefix, link>>]

\* json.load of the snapshot: the values of the file in the order of its
\* keys, the list-valued entries first, then the four provenance fields
LoadedValues(snapshot) ==
    [i \in DOMAIN snapshot.keys |->
        [kind |-> "list",
         v |-> [j \in DOMAIN snapshot.lists[snapshot.keys[i]] |->
                   LinkRecord(snapshot.lists[snapshot.keys[i]][j])]]]
    \o << [kind |-> "str", v |-> snapshot.initial_date],
          [kind |-> "str", v |-> snapshot.final_date],
          [kind |-> "str", v |-> snapshot.update_date],
          [kind |-> "int", v |-> snapshot.total_cases] >>

\* elem['url'].replace('/app/details/', '')
CaseIdOf(elem) == SelectSeq(elem.url, LAMBDA t : t # DetailsPrefix)

\* variant: only the first link of a list is yielded
YieldList_FirstOnly(value) ==
    IF value = <<>> THEN <<>> ELSE <<CaseIdOf(value[1])>>
\* for elem in value: yield case_id
YieldList(value) == [j \in DOMAIN value |-> CaseIdOf(value[j])]

\* the loop of extract_case_id over loaded_data.values() (lines 264-270)
RECURSIVE ExtractCaseIds(_)
ExtractCaseIds(values) ==
    IF values = <<>> THEN <<>>
    ELSE (IF Head(values).kind = "list" THEN YieldList(Head(values).v)
          ELSE <<>>) \o ExtractCaseIds(Tail(values))

\* list(extract_case_id()) on the snapshot seal_results has written
ListCaseIds ==
    /\ scrape.pc = "sealed"
    /\ scrape' = [scrape EXCEPT
            !.pc = "listed",
            !.ids = ExtractCaseIds(LoadedValues(scrape.snapshot))]
    /\ UNCHANGED nonScrape

NextScrape == ScrapeDetails \/ ScrapeRaises \/ WriteSnapshot \/ ListCaseIds

\* Ginfo.driver is created once, in the class body (lines 46-48).  A pool
\* worker created by fork renders through the driver object it inherits
\* from the calling process, one created by spawn imports the module and
\* renders through a session of its own.
WorkerSession(method, session) ==
    IF method = "fork" THEN session ELSE "live"

\* the next Ginfo instance of the same process calls seal_results (the loop
\* of scripts/scrape.py over the nature-of-suit values)
MaxSealRuns == 2
SealResultsAgain(method) ==
    /\ scrape.pc = "sealed"
    /\ scrape.run < MaxSealRuns
    /\ scrape' = [ScrapeNew(scrape.initial_date, scrape.final_date,
                            scrape.page_size)
                     EXCEPT !.session = WorkerSession(method, scrape.session),
                            !.run = scrape.run + 1]
    /\ UNCHANGED nonScrape

NextSession ==
    \/ ScrapeDetails
    \/ ScrapeRaises
    \/ WriteSnapshot
    \/ \E method \in StartMethods : SealResultsAgain(method)

-----------------------------------------------------------------------------
(***************************************************************************)
(* The snapshot path: Ginfo.__init__ (lines 90-107) and the file that      *)
(* seal_results opens (lines 247-249).  A string is a sequence of tokens,  *)
(* a path a sequence of segments.                                          *)
(***************************************************************************)
NoArg == <<>>                      \* a keyword argument that is not given
MaxInstances == 2                  \* Ginfo instances that call seal_results

\* the keyword arguments explored
KwArgs ==
    [base_dir : {<<"base">>},
     collection : {<<"USCOURTS">>},
     nature_suit : {<<"Patent">>, <<"Trademark">>},
     initial_date : {<<"2020", "-", "01", "-", "01">>,
                     <<"2019", "-", "01", "-", "01">>},
     final_date : {<<"2020", "-", "01", "-", "02">>},
     page_size : {50, 100},
     hash_filename : {NoArg, <<"label">>},
     json_details_folder : {NoArg, <<"elsewhere">>}]

\* hashlib.md5(s.encode('utf-8')).hexdigest(): a function of the string
\* (distinct strings are given distinct digests)
Md5(string) == <<"md5">> \o string

\* f'{collection}-{nature_suit}-{initial_date}-{final_date}'
HashInput_WithPageSize(k) ==
    k.collection \o <<"-">> \o k.nature_suit \o <<"-">> \o k.initial_date
        \o <<"-">> \o k.final_date \o <<"-">>
        \o (IF k.page_size = 50 THEN <<"50">> ELSE <<"100">>)
HashInput(k) ==
    k.collection \o <<"-">> \o k.nature_suit \o <<"-">> \o k.initial_date
        \o <<"-">> \o k.final_date

\* self.hash_filename (lines 104-105)
HashFilename(k) ==
    IF k.hash_filename # NoArg THEN k.hash_filename ELSE Md5(HashInput(k))

\* self.json_details_folder (lines 106-107)
JsonDetailsFolder(k) ==
    IF k.json_details_folder # NoArg THEN <<k.json_details_folder>>
    ELSE <<k.base_dir, k.collection, k.nature_suit>>

\* file_path of seal_results: json_details_folder / f'{hash_filename}.json'
SnapshotPath(k) ==
    [folder |-> JsonDetailsFolder(k), name |-> HashFilename(k) \o <<".json">>]

NoneMade == [runs |-> <<>>, paths |-> {}]

\* Ginfo(**k).seal_results(): open(file_path, 'w') creates the file or
\* replaces its content
SealSnapshot(k) ==
    /\ Len(made.runs) < MaxInstances
    /\ made' = [runs |-> Append(made.runs, [kwargs |-> k,
                                             path |-> SnapshotPath(k)]),
                paths |-> made.paths \cup {SnapshotPath(k)}]
    /\ UNCHANGED nonMade

NextMade == \E k \in KwArgs : SealSnapshot(k)

-----------------------------------------------------------------------------
(***************************************************************************)
(* The specifications.                                                     *)
(***************************************************************************)
IdleSplit == SplitNew([mode |-> "forward", range_days |-> 1,
                       start |-> FirstDate, end |-> FirstDate])

InitSplit ==
    /\ split \in {SplitNew(in) : in \in SplitInputs}
    /\ InitFetchVars
    /\ InitSealVars
    /\ txt = IdleText
    /\ InitSerVars
    /\ scrape = IdleScrape
    /\ made = NoneMade

NextSplit ==
    /\ ForwardFirst \/ ForwardNext \/ BackwardFirst \/ BackwardNext
    /\ UNCHANGED nonSplit

SpecSplit == InitSplit /\ [][NextSplit]_vars

InitFetch ==
    /\ split = IdleSplit
    /\ InitFetchVars
    /\ InitSealVars
    /\ txt = IdleText
    /\ InitSerVars
    /\ scrape = IdleScrape
    /\ made = NoneMade

SpecFetch == InitFetch /\ [][NextFetch]_vars

(***************************************************************************)
(* SpecPool: one invocation of parallel_download with a pool of two        *)
(* workers, from a driver whose error map is empty.                        *)
(***************************************************************************)
InitPool ==
    /\ split = IdleSplit
    /\ files = {}
    /\ errs = [p \in Procs |-> ClassBody]
    /\ proc = [p \in Procs |-> IdleProc]
    /\ pd = [IdlePD EXCEPT !.processes = 2]
    /\ calls = 0
    /\ runs = MaxRuns - 1
    /\ InitSealVars
    /\ txt = IdleText
    /\ InitSerVars
    /\ scrape = IdleScrape
    /\ made = NoneMade

NextPool ==
    \/ \E snapshot \in Snapshots, method \in StartMethods :
          StartDownload(snapshot, method)
    \/ \E w \in Workers : Take(w)
    \/ \E w \in Workers : WorkerCheck(w)
    \/ \E w \in Workers, o \in Outcomes : WorkerGet(w, o)
    \/ EndFirstPass
    \/ Abort

SpecPool == InitPool /\ [][NextPool]_vars

InitSeal ==
    /\ split = IdleSplit
    /\ InitFetchVars
    /\ InitSealVars
    /\ txt = IdleText
    /\ InitSerVars
    /\ scrape = IdleScrape
    /\ made = NoneMade

SpecSeal == InitSeal /\ [][NextSeal]_vars

\* the reconciler over a directory from which files are also removed
SpecSealDel == InitSeal /\ [][NextSealDel]_vars

InitText ==
    /\ split = IdleSplit
    /\ InitFetchVars
    /\ InitSealVars
    /\ txt \in {TextInput(t, c, p) :
                    t \in Texts, c \in CourtTypes, p \in PreferredCitations}
    /\ InitSerVars
    /\ scrape = IdleScrape
    /\ made = NoneMade

SpecText == InitText /\ [][NextText]_vars

InitSer ==
    /\ split = IdleSplit
    /\ InitFetchVars
    /\ InitSealVars
    /\ txt = IdleText
    /\ ser \in {SerInput(doc, pdf, conv) :
                    doc \in Documents, pdf \in PdfKinds, conv \in BOOLEAN}
    /\ logs = NoLogs
    /\ scrape = IdleScrape
    /\ made = NoneMade

SpecSer == InitSer /\ [][NextSer]_vars

InitLog ==
    /\ split = IdleSplit
    /\ InitFetchVars
    /\ InitSealVars
    /\ txt = IdleText
    /\ InitSerVars
    /\ scrape = IdleScrape
    /\ made = NoneMade

SpecLog == InitLog /\ [][NextLog]_vars

InitOcr ==
    /\ split = IdleSplit
    /\ InitFetchVars
    /\ InitSealVars
    /\ txt = IdleText
    /\ ser \in {OcrNew(page_count, batch_size, cpus) :
                    page_count \in 0..MaxPages,
                    batch_size \in 1..MaxBatchSize, cpus \in CpuCounts}
    /\ logs = NoLogs
    /\ scrape = IdleScrape
    /\ made = NoneMade

SpecOcr == InitOcr /\ [][NextOcr]_vars

InitScrape ==
    /\ split = IdleSplit
    /\ InitFetchVars
    /\ InitSealVars
    /\ txt = IdleText
    /\ InitSerVars
    /\ scrape \in {ScrapeNew(d, FinalDate, n) :
                       d \in InitialDates, n \in PageSizes}
    /\ made = NoneMade

SpecScrape == InitScrape /\ [][NextScrape]_vars

\* successive calls of seal_results in one process
SpecSession == InitScrape /\ [][NextSession]_vars

InitMade ==
    /\ split = IdleSplit
    /\ InitFetchVars
    /\ InitSealVars
    /\ txt = IdleText
    /\ InitSerVars
    /\ scrape = IdleScrape
    /\ made = NoneMade

SpecMade == InitMade /\ [][NextMade]_vars

-----------------------------------------------------------------------------
(***************************************************************************)
(* Claims about the splitter.                                              *)
(***************************************************************************)
SplitDone == split.pc = "done"
WinStart(i) == p_date(split.out[i][1])
WinEnd(i)   == p_date(split.out[i][2])
ArgStart    == p_date(split.arg_start)
ArgEnd      == p_date(split.arg_end)

CeilDiv(a, b) == (a + b - 1) \div b

\* C1: once the generator is exhausted, its windows partition the inclusive
\* interval [start, end]: every window has start_date <= end_date, every day
\* of the interval lies in exactly one window, no window leaves the interval,
\* and chronologically adjacent windows satisfy next.start = previous.end + 1.
C1_WindowsPartitionInterval ==
    SplitDone =>
        LET n == Len(split.out) IN
        /\ \A i \in 1..n : WinStart(i) <= WinEnd(i)
        /\ \A i \in 1..n : ArgStart <= WinStart(i) /\ WinEnd(i) <= ArgEnd
        /\ \A d \in ArgStart..ArgEnd :
               Cardinality({i \in 1..n : WinStart(i) <= d /\ d <= WinEnd(i)}) = 1
        /\ \A i \in 1..(n - 1) :
               IF split.mode = "forward"
               THEN WinStart(i + 1) = WinEnd(i) + 1
               ELSE WinStart(i) = WinEnd(i + 1) + 1

\* C1 witness: a backward run of at least three windows whose final window is
\* shorter than the others.
C1_Witness ==
    /\ SplitDone
    /\ split.mode = "backward"
    /\ Len(split.out) >= 3
    /\ WinEnd(Len(split.out)) - WinStart(Len(split.out)) < split.range_days

\* C2 as stated: the number of windows equals ceil((end - start) / span).
C2_CountIsCeilOfDifference ==
    SplitDone => Len(split.out) = CeilDiv(ArgEnd - ArgStart, split.range_days)

\* C2 amended: a window of the loop runs from a day to the day span later, so
\* it holds span + 1 calendar days; the number of windows equals
\* ceil((end - start + 1) / (span + 1)), every window but the final one
\* emitted has end_date - start_date = span, and the final one at most span.
C2_CountIsCeilOfDays ==
    SplitDone =>
        LET n == Len(split.out) IN
        /\ n = CeilDiv(ArgEnd - ArgStart + 1, split.range_days + 1)
        /\ \A i \in 1..(n - 1) : WinEnd(i) - WinStart(i) = split.range_days
        /\ WinEnd(n) - WinStart(n) <= split.range_days

\* C2 witness: a forward run of several windows that ends with a short one.
C2_Witness ==
    /\ SplitDone
    /\ split.mode = "forward"
    /\ Len(split.out) >= 2
    /\ WinEnd(Len(split.out)) - WinStart(Len(split.out)) < split.range_days

\* one resumption of the loop: the advancing boundary (start for the forward
\* generator, end for the backward one) moves strictly toward the other end
LoopAdvances ==
    (split.pc = "loop" /\ split' # split) =>
        IF split.mode = "forward" THEN split'.start > split.start
        ELSE split'.end < split.end

\* every next() delivers one window; the window delivered when the loop is
\* left is (start, end) of that moment and nothing is delivered after it
OneFinalWindow ==
    split' # split =>
        /\ split.pc # "done"
        /\ Len(split'.out) = Len(split.out) + 1
        /\ split'.pc = "done" =>
               split'.out[Len(split'.out)] = <<f_date(split'.start), f_date(split'.end)>>

\* the boundaries stay inside the interval, so the advancing boundary can move
\* at most end - start times, and no more windows are emitted than the
\* interval has days
WithinInterval ==
    split.pc # "new" =>
        /\ ArgStart <= split.start /\ split.start <= split.end
        /\ split.end <= ArgEnd
        /\ Len(split.out) <= (ArgEnd - ArgStart) + 1

\* a generator that has not delivered its final window can be resumed: it
\* stands before its first next() or at the yield inside the loop of one of
\* the two generators, where SplitFirst / SplitNext are enabled
Resumable ==
    split.pc # "done" =>
        split.pc \in {"new", "loop"} /\ split.mode \in {"forward", "backward"}

\* C40: for every start <= end and every span >= 1 day, the forward and the
\* backward generator terminate after finitely many windows: each resumption
\* of the loop strictly moves the advancing boundary toward the other end of
\* the interval and never past it, a generator that is not exhausted can be
\* resumed, and exactly one final window is emitted, after the loop and as
\* the last one.
C40_SplitTerminates ==
    /\ [][LoopAdvances /\ OneFinalWindow]_vars
    /\ [](WithinInterval /\ Resumable)

\* C40 witness: a forward generator of one-day spans is exhausted after its
\* loop ran at least twice.
C40_Witness ==
    /\ SplitDone
    /\ split.mode = "forward"
    /\ split.range_days = 1
    /\ Len(split.out) >= 3
    /\ split.start > ArgStart


-----------------------------------------------------------------------------
(***************************************************************************)
(* Claims about the detail fetcher.                                        *)
(***************************************************************************)
Returned(p) == proc[p].pc = "free" /\ proc[p].id # NoId
Requested(p) == DOMAIN proc[p].fetched
BothOnDisk(id) == \A e \in DOMAIN Exts : IsFile(files, id, Exts[e])

\* C3: a download_details call (normal or retry mode, in any process) that
\* starts with both files of its identifier on disk issues no HTTP request,
\* leaves the error map of its process unchanged and does not raise.
C3_ExistingFilesAreSkipped ==
    \A p \in Procs :
        (proc[p].id # NoId /\ proc[p].both0) =>
            /\ Requested(p) = {}
            /\ proc[p].same
            /\ proc[p].pc \in {"check", "free"}

\* C3 witness: a retry-mode call in the pool worker has returned for an
\* identifier that is a key of the worker's map and has both files on disk.
C3_Witness ==
    /\ Returned("w1")
    /\ proc["w1"].failed
    /\ proc["w1"].both0
    /\ proc["w1"].had0

FirstPassOver ==
    \/ pd.pc = "pass2"
    \/ pd.pc = "idle" /\ pd.result \in {"returned", "retried"}

\* C4 (as claimed): in a run that starts with an empty map, the keys the
\* batch driver reads after the first pass are exactly the identifiers for
\* which at least one artifact fetch failed in a pool worker.
C4_DriverSeesPoolFailures ==
    (pd.start_empty /\ FirstPassOver) => pd.seen1 = pd.failed1

\* C5 (as claimed): when a retry-mode call has returned and removed its
\* identifier from the map, both the metadata file and the PDF exist.
C5_RemovedOnlyWhenBothFilesExist ==
    \A p \in Procs :
        (Returned(p) /\ proc[p].failed /\ proc[p].had0
            /\ proc[p].id \notin Keys(errs[p])) => BothOnDisk(proc[p].id)

\* the last iteration of process p requested its artifact and the request
\* failed with detail d
FailedAt(p, ext) ==
    /\ ext \in Requested(p)
    /\ proc[p].fetched[ext] # StatusOK
    /\ \/ proc[p].pc = "check" /\ proc[p].ext = ext + 1
       \/ proc[p].pc = "free" /\ ext = Len(Exts)

\* C6: a download_details call that issued a request does not raise, and
\* right after an iteration whose request ended in a non-200 status or an
\* exception the map of the process holds identifier -> that status or
\* exception.
C6_FailureRecordedWithoutRaising ==
    \A p \in Procs :
        /\ proc[p].pc = "raised" => Requested(p) = {}
        /\ \A ext \in DOMAIN Exts :
              FailedAt(p, ext) =>
                  /\ proc[p].id \in Keys(errs[p])
                  /\ errs[p].m[proc[p].id] = proc[p].fetched[ext]

\* C6 witness: in the first pass the metadata request of a pool worker has
\* just raised, and the worker goes on to the PDF of the same identifier.
C6_Witness ==
    /\ pd.pc = "pass1"
    /\ FailedAt("w1", 1)
    /\ proc["w1"].fetched[1] = TransportError
    /\ proc["w1"].pc = "check"

Range(seq) == {seq[i] : i \in DOMAIN seq}
NoDuplicates(seq) == \A i, j \in DOMAIN seq : seq[i] = seq[j] => i = j

\* C7: parallel_download runs the retry pass if and only if the map the driver
\* reads after the first pass is non-empty; the retry pass hands out, in retry
\* mode, exactly the keys read then, each of them once, and the first pass
\* hands out nothing in retry mode.
C7_RetryPassOverFailedKeys ==
    /\ pd.pc = "pass1" => \A w \in Workers : ~proc[w].failed
    /\ pd.pc = "pass2" =>
          /\ pd.seen1 # {}
          /\ NoDuplicates(pd.retried)
          /\ Range(pd.retried) \cup Range(pd.queue) = pd.seen1
          /\ \A w \in Workers :
                proc[w].pc # "free" =>
                    proc[w].failed /\ proc[w].id \in Range(pd.retried)
    /\ (pd.pc = "idle" /\ pd.result = "retried") =>
          /\ pd.seen1 # {}
          /\ NoDuplicates(pd.retried)
          /\ Range(pd.retried) = pd.seen1
    /\ (pd.pc = "idle" /\ pd.result = "returned") =>
          pd.seen1 = {} /\ pd.retried = <<>>

\* C7 witness: a run has ended after a retry pass over both identifiers.
C7_Witness ==
    /\ pd.pc = "idle"
    /\ pd.result = "retried"
    /\ pd.seen1 = Ids
    /\ Len(pd.retried) = Cardinality(Ids)

\* a run of parallel_download has ended with its retry loop exhausted and
\* nothing has been called since
AfterRetryCycle ==
    pd.pc = "idle" /\ pd.result = "retried" /\ proc[Driver] = IdleProc

\* C21: when a retry pass has run, the download log holds one row
\* (identifier, failure detail) for every identifier still in the error map
\* after the retry pass, and the error map is cleared afterwards.
C21_LogRowPerRemainingFailure ==
    AfterRetryCycle =>
        /\ ~pd.log_raised
        /\ Range(pd.log) = {<<id, pd.seen2[id]>> : id \in DOMAIN pd.seen2}
        /\ Len(pd.log) = Cardinality(DOMAIN pd.seen2)
        /\ Keys(errs[Driver]) = {}

\* C23: when the snapshot file is absent, parallel_download fails with the
\* not-found error of extract_case_id; no pass over zero cases is started,
\* and the error is raised for an absent snapshot only.
C23_AbsentSnapshotRaises ==
    /\ ~pd.found =>
          /\ pd.pc = "idle"
          /\ pd.result = "not_found"
          /\ pd.queue = <<>> /\ pd.retried = <<>>
    /\ pd.result = "not_found" => ~pd.found

\* C23 witness: the second invocation finds no snapshot file, after a first
\* one that downloaded files.
C23_Witness ==
    /\ pd.result = "not_found"
    /\ runs = 2
    /\ files # {}

\* C27: for any interleaving of pool workers recording failures of distinct
\* identifiers, once all workers have finished the first pass the error map
\* holds an entry for every identifier whose fetch failed (read here for
\* the map of any one process).
C27_NoFailureLostBetweenWorkers ==
    (pd.pc = "pass1" /\ PassOver) =>
        \E p \in Procs : pd.failed1 \subseteq Keys(errs[p])

\* C29: within one run no artifact path is written by two successful
\* retrievals: two workers never both pass the file-exists check for one
\* path and both write it.
C29_OneWriterPerPath ==
    \A v, w \in Workers :
        (v # w /\ proc[v].id # NoId /\ proc[v].id = proc[w].id) =>
            \A ext \in Requested(v) \cap Requested(w) :
                ~(proc[v].fetched[ext] = StatusOK
                    /\ proc[w].fetched[ext] = StatusOK)

\* C28: after an invocation of parallel_download that went through a retry
\* cycle, the error map of the process is a usable empty map, so that a later
\* invocation starts from it.
C28_EmptyMapAfterRetryCycle ==
    AfterRetryCycle => ~errs[Driver].none /\ Keys(errs[Driver]) = {}

\* the number of requests of the run for an artifact in a pass
Requests(id, ext, pass) ==
    IF <<id, ext, pass>> \in DOMAIN pd.reqs THEN pd.reqs[<<id, ext, pass>>]
    ELSE 0

\* C35: in one run of parallel_download over distinct identifiers, an
\* artifact is requested at most once in the first pass and at most once in
\* the retry pass, hence at most twice, and an artifact for which a request
\* of the first pass returned 200 is not requested in the retry pass.
C35_AtMostOneRequestPerPass ==
    NoDuplicates(pd.batch) =>
        \A id \in Ids : \A ext \in DOMAIN Exts :
            /\ Requests(id, ext, "pass1") <= 1
            /\ Requests(id, ext, "pass2") <= 1
            /\ <<id, ext>> \in pd.ok1 => Requests(id, ext, "pass2") = 0

\* C35 witness: a run has ended after its retry pass; the metadata file of an
\* identifier was requested in both passes, and its PDF, fetched in the
\* first pass, was not requested when the identifier was retried.
C35_Witness ==
    /\ pd.pc = "idle" /\ pd.result = "retried"
    /\ NoDuplicates(pd.batch)
    /\ \E id \in Range(pd.retried) :
           /\ Requests(id, 1, "pass1") = 1
           /\ Requests(id, 1, "pass2") = 1
           /\ <<id, 2>> \in pd.ok1
           /\ Requests(id, 2, "pass2") = 0

-----------------------------------------------------------------------------
(***************************************************************************)
(* Claims about the archive reconciler.                                    *)
(***************************************************************************)
CaseKeys(inf) ==
    UNION {{<<c, k>> : k \in DOMAIN inf.records[c].cases} :
              c \in DOMAIN inf.records}
SameSummary(a, b) ==
    /\ a.dates_covered = b.dates_covered
    /\ a.total_json_files = b.total_json_files
    /\ a.total_cases = b.total_cases
    /\ a.records = b.records

\* C8: when seal_bulk_data has written info.json and runs again with no
\* metadata file, JSON record or snapshot added in between, the second
\* summary equals the first apart from time_created: same counts, same
\* records, same dates_covered.
C8_SecondSealChangesNothing ==
    seal.twice =>
        /\ seal.prev.exists
        /\ SameSummary(seal.prev, info)
        /\ CaseKeys(seal.prev) = CaseKeys(info)
        /\ info.time_created # seal.prev.time_created

\* C8 witness: a second pass in succession over a directory with cases of
\* two courts and several snapshots, two of them with one initial date.
C8_Witness ==
    /\ seal.twice
    /\ info.total_cases >= 3
    /\ Cardinality(DOMAIN info.records) >= 2
    /\ Len(info.dates_covered) >= 3

\* C16: in every reachable state every JSON case record on disk has its
\* metadata file on disk: the set of JSON stems is a subset of the set of
\* metadata stems.
C16_JsonStemsWithinMetadataStems ==
    check_failed_files(Paths(tree, info)).data.json
        \subseteq check_failed_files(Paths(tree, info)).data.xml

\* C16 witness: a JSON record was just written for one case while the
\* metadata file of another case has none.
C16_Witness ==
    /\ seal.last = "serialize"
    /\ tree.json # {}
    /\ tree.xml \ tree.json # {}

\* the case identifiers listed in the snapshots written so far
SnapshotCases == UNION {SnapCases[k] : k \in tree.snaps}

\* C17: after a reconciliation pass, total_cases equals the number of
\* distinct case identifiers listed in the snapshots written so far, those
\* whose download failed included.
C17_TotalCasesCountsSnapshotIdentifiers ==
    seal.last = "sealed" => info.total_cases = Cardinality(SnapshotCases)

SortedByInitialDate(dc) ==
    \A i, j \in DOMAIN dc : i < j => p_date(dc[i][1]) <= p_date(dc[j][1])

\* C18: after a pass of seal_bulk_data, dates_covered holds the
\* [initial_date, final_date] pair of every snapshot in the folder and every
\* pair recorded by earlier passes, holds no pair twice, and is in
\* non-decreasing order of parsed initial_date.
C18_DatesCoveredCompleteUniqueSorted ==
    seal.last = "sealed" =>
        /\ \A k \in tree.snaps : SnapDates[k] \in Range(info.dates_covered)
        /\ Range(seal.prev.dates_covered) \subseteq Range(info.dates_covered)
        /\ NoDuplicates(info.dates_covered)
        /\ SortedByInitialDate(info.dates_covered)

\* C18 witness: a pass that found pairs recorded by an earlier pass and a
\* snapshot written since, two of the pairs sharing their initial date and
\* one snapshot written out of date order.
C18_Witness ==
    /\ seal.last = "sealed"
    /\ seal.prev.dates_covered # <<>>
    /\ Len(info.dates_covered) > Len(seal.prev.dates_covered)
    /\ tree.snaps = DOMAIN SnapDates

C20_RetryThenSummary ==
    [][(seal'.n = seal.n + 1
          /\ check_failed_files(Paths(tree, info)).failed_filenames # {})
         => /\ seal'.last = "sealed"
            /\ tree'.json \ tree.json
                  \subseteq check_failed_files(Paths(tree, info)).failed_filenames]_vars

RECURSIVE SumOfRecords(_, _)
SumOfRecords(records, courts) ==
    IF courts = {} THEN 0
    ELSE LET c == CHOOSE x \in courts : TRUE
         IN  records[c].number_of_records + SumOfRecords(records, courts \ {c})

\* C37: after every call of seal_bulk_data in a sequence of calls that starts
\* with no info.json, the summary written is consistent with itself:
\* total_cases is the sum of number_of_records over the courts, the
\* number_of_records of a court is the number of case keys under it, and
\* total_json_files is the number of case entries with has_json true.
C37_SummaryInternallyConsistent ==
    info.exists =>
        /\ info.total_cases = SumOfRecords(info.records, DOMAIN info.records)
        /\ \A c \in DOMAIN info.records :
               info.records[c].number_of_records
                   = Cardinality(DOMAIN info.records[c].cases)
        /\ info.total_json_files =
               Cardinality({s \in StemSet :
                   /\ s[1] \in DOMAIN info.records
                   /\ s \in DOMAIN info.records[s[1]].cases
                   /\ info.records[s[1]].cases[s].has_json})

\* C37 witness: a third call has returned and added cases to the summary an
\* earlier call wrote; the summary holds two courts, one with two cases.
C37_Witness ==
    /\ seal.n = 3
    /\ seal.last = "sealed"
    /\ seal.prev.exists /\ seal.prev.total_cases \in 1..2
    /\ info.total_cases = 3
    /\ Cardinality(DOMAIN info.records) = 2

DatePairs(inf) == {inf.dates_covered[i] : i \in DOMAIN inf.dates_covered}

\* the summary b holds everything the summary a holds
Extends(a, b) ==
    /\ b.exists
    /\ CaseKeys(a) \subseteq CaseKeys(b)
    /\ DatePairs(a) \subseteq DatePairs(b)
    /\ a.total_cases <= b.total_cases
    /\ a.total_json_files <= b.total_json_files
    /\ \A c \in DOMAIN a.records :
           /\ c \in DOMAIN b.records
           /\ a.records[c].number_of_records <= b.records[c].number_of_records

\* C38: across the calls of seal_bulk_data that reuse one info.json, no
\* entry of the summary is removed: every case key and every pair of
\* dates_covered of a summary is in the next one (hence in all later ones),
\* and total_cases, total_json_files and the number_of_records of each
\* court do not decrease, also when metadata files, JSON records or
\* snapshots were removed from the directory between the calls.
C38_SummaryOnlyGrows ==
    [][info.exists => Extends(info, info')]_vars

\* C38 witness: a call has returned after the metadata file of a case and a
\* snapshot that the previous summary lists were removed, and after another
\* case was added.
C38_Witness ==
    /\ seal.last = "sealed"
    /\ seal.prev.exists
    /\ \E k \in CaseKeys(seal.prev) : k[2] \notin tree.xml
    /\ \E k \in DOMAIN SnapDates :
           k \notin tree.snaps /\ SnapDates[k] \in DatePairs(seal.prev)
    /\ CaseKeys(info) # CaseKeys(seal.prev)

-----------------------------------------------------------------------------
(***************************************************************************)
(* Claims about header stripping and the OCR decision.                     *)
(***************************************************************************)
Tokens(t) ==
    Cardinality({i \in 1..Len(t) :
                    t[i] \in WordChars /\ (i = 1 \/ t[i - 1] \notin WordChars)})
Stripped == header_remove(txt.text,
                          Citation(txt.court_type, txt.preferred_citation))
Occurs(piece, t) ==
    \E i \in 1..(Len(t) + 1) :
        \A n \in 1..Len(piece) : At(t, i + n - 1) = piece[n]

\* C9: check_ocr flags ocr and returns the empty text when the header-
\* stripped text holds at most 50 word tokens; when it holds more than 50 it
\* flags no ocr and returns the header-stripped text itself.
C9_FiftyWordThreshold ==
    txt.pc = "checked" =>
        LET stripped == Stripped
            tokens == Tokens(stripped)
        IN  /\ tokens <= 50 => txt.ocr /\ txt.plain_text = <<>>
            /\ tokens > 50 => ~txt.ocr /\ txt.plain_text = stripped

\* C9 witness: a text from which a header was stripped and that is left with
\* exactly 51 tokens behind a leading separator was accepted as native.
C9_Witness ==
    /\ txt.pc = "checked"
    /\ ~txt.ocr
    /\ txt.citation # <<>>
    /\ txt.plain_text # txt.text
    /\ txt.plain_text[1] \notin WordChars
    /\ Tokens(txt.plain_text) = 51

\* C10 (as claimed): header_remove returns its input unchanged whenever the
\* citation string occurs nowhere in the text.
C10_NoCitationNoChange ==
    (txt.pc = "stripped" /\ ~Occurs(txt.citation, txt.text)) =>
        txt.plain_text = txt.text

\* C34 (as claimed): for a court type other than Appellate, Bankruptcy and
\* District the citation derived is empty and header stripping removes
\* nothing: the text that reaches the word count, and the text check_ocr
\* returns for a native document, is the extracted text.
C34_OtherCourtTypeKeepsText ==
    (txt.pc \in {"stripped", "checked"}
        /\ txt.court_type \notin {"Appellate", "Bankruptcy", "District"}) =>
        /\ txt.citation = <<>>
        /\ txt.pc = "stripped" => txt.plain_text = txt.text
        /\ (txt.pc = "checked" /\ ~txt.ocr) => txt.plain_text = txt.text

-----------------------------------------------------------------------------
(***************************************************************************)
(* Claims about serialization.                                             *)
(***************************************************************************)
Extracted == ser.pc \notin {"idle", "start"}
Parties == ser.doc.main["party"]
WellFormed(o) == {"role", "fullname"} \subseteq DOMAIN o.attrs
RoleKeys == {PartyKey(Parties[i].attrs.role) : i \in DOMAIN Parties}
FirstSeen(key, fullname) ==
    Min({i \in DOMAIN Parties : /\ PartyKey(Parties[i].attrs.role) = key
                                /\ Parties[i].attrs.fullname = fullname})

\* C11: for a document whose party occurrences all carry a role and a full
\* name, the party map of the record has one list per normalized role, and
\* the list holds every full name seen with that role exactly once, in the
\* order of first occurrence.
C11_PartyListsDedupedFirstSeen ==
    (Extracted /\ Parties # <<>>
        /\ \A i \in DOMAIN Parties : WellFormed(Parties[i])) =>
        /\ ser.data["party"].kind = "dict"
        /\ DOMAIN ser.data["party"].v = RoleKeys
        /\ \A key \in RoleKeys :
              LET list == ser.data["party"].v[key]
              IN  /\ NoDuplicates(list)
                  /\ Range(list) =
                        {Parties[i].attrs.fullname :
                            i \in {n \in DOMAIN Parties :
                                      PartyKey(Parties[n].attrs.role) = key}}
                  /\ \A a \in DOMAIN list : \A b \in DOMAIN list :
                        a < b => FirstSeen(key, list[a])
                                    < FirstSeen(key, list[b])

\* C11 witness: the roles 'p a' and 'P-A' name Y, then X, then X again; the
\* record lists Y and X once each under p_a.
C11_Witness ==
    /\ ser.pc = "written"
    /\ Len(Parties) = 3
    /\ \A i \in DOMAIN Parties : WellFormed(Parties[i])
    /\ Parties[2].attrs.role # Parties[3].attrs.role
    /\ ser.json["party"].kind = "dict"
    /\ DOMAIN ser.json["party"].v = {<<"p", "_", "a">>}
    /\ ser.json["party"].v[<<"p", "_", "a">>] = <<"Y", "X">>

ExtractionRaised ==
    /\ Extracted
    /\ \E i \in DOMAIN ser.caught : ser.caught[i][1] = XmlPath
                                        /\ ser.caught[i][2] # "OSError"

\* C14 (as claimed): a call of serialize_metadata in which the extraction
\* pass raised, at whichever tag, does not raise and goes on to write the
\* JSON record.
C14_RecordWrittenAfterExtractionError ==
    ExtractionRaised => ser.pc # "raised"

\* C15 (as claimed): every exception caught while a case is serialized has
\* put one row into the exception log.
C15_EveryCaughtExceptionLogged ==
    Extracted => Len(logs.exception) = Len(ser.caught)

\* C24: when check_ocr has flagged the case for OCR and OCR conversion is
\* disabled, serialize_metadata goes on to write the JSON record, with ocr
\* true and the empty string as plain_text.
C24_FlaggedWithoutConversionStillWritten ==
    [][(ser.pc = "checked" /\ ser.data["ocr"].v /\ ~ser.ocr_conversion)
         => /\ ser'.written
            /\ ser'.json["ocr"] = Bool(TRUE)
            /\ ser'.json["plain_text"] = Str(<<>>)]_vars

\* C24 witness: the record of a PDF with a few words of text was written
\* with the OCR flag while conversion is disabled.
C24_Witness ==
    /\ ser.pc = "written"
    /\ ~ser.ocr_conversion
    /\ ser.pdf = "sparse"
    /\ ser.json["ocr"].v

\* the occurrences of the tag of a table entry in its section of the document
Matching(doc, entry) ==
    IF entry.doc_type = "main" THEN find_all(doc.main, entry.tag)
    ELSE IF doc.related.present THEN find_all(doc.related.tags, entry.tag)
    ELSE <<>>

\* C33 (as claimed): for every (section, tag, field) triple of the tag table,
\* the call of extract_metadata on a document with no matching tag sets the
\* field to the empty string and raises nothing, also when the document has
\* no related element for the case identifier; an extraction pass that
\* raised nothing has left the empty string in every such field.
C33_AbsentTagGivesEmptyField ==
    Extracted =>
        \A i \in DOMAIN TagTable :
            Matching(ser.doc, TagTable[i]) = <<>> =>
                LET r == extract_metadata(ser.doc, EmptyMap, TagTable[i].tag,
                                          TagTable[i].key, TagTable[i].doc_type)
                IN  /\ r.raised = NoException
                    /\ r.data[TagTable[i].key] = Str("")
                    /\ ser.caught = <<>> => ser.data[TagTable[i].key] = Str("")

IsPrefix(a, b) == Len(a) <= Len(b) /\ SubSeq(b, 1, Len(a)) = a

\* C36 (as claimed): the error logs are append-only: the rows a log file
\* holds before a call of _logger are still there, in their places, after
\* it, whichever of exception log, process log and download log the call
\* writes and also when the call is the one parallel_download makes.
C36_LogsAppendOnly ==
    [][\A f \in DOMAIN logs : IsPrefix(logs[f], logs'[f])]_vars

\* the pages of the PDF whose task returned a text
Recognized == (1..ser.page_count) \ ser.failed
PageOf(name) == CHOOSE n \in DOMAIN PageNames : PageNames[n] = name
TextsOf(ocr_text) == SelectSeq(ocr_text, LAMBDA t : t # NL)

\* C32: for every order in which the OCR tasks complete, within a batch and
\* across batches, the text assembled is the texts of the recognized pages
\* put together in increasing page-number order (joined by newlines), each
\* recognized page exactly once, and every text was yielded with the
\* number its page has in the PDF.
C32_OcrTextInPageOrder ==
    ser.pc = "assembled" =>
        LET texts == TextsOf(ser.ocr_text) IN
        /\ \A i \in DOMAIN ser.yielded :
               ser.yielded[i][1] = PageText(ser.yielded[i][2])
        /\ Len(texts) = Cardinality(Recognized)
        /\ {PageOf(texts[i]) : i \in DOMAIN texts} = Recognized
        /\ \A i, j \in DOMAIN texts : i < j => PageOf(texts[i]) < PageOf(texts[j])
        /\ Len(ser.ocr_text) =
               IF texts = <<>> THEN 0 ELSE 2 * Len(texts) - 1

\* C32 witness: the text of a document of two batches was assembled after
\* a page of a later batch completed before a page of that batch with a
\* smaller number, and one page was not recognized.
C32_Witness ==
    /\ ser.pc = "assembled"
    /\ ser.iter_ >= 2
    /\ ser.failed # {}
    /\ \E i, j \in DOMAIN ser.yielded :
           i < j /\ ser.yielded[i][2] > ser.yielded[j][2]
                 /\ ser.yielded[j][2] > ser.batch_size

-----------------------------------------------------------------------------
(***************************************************************************)
(* Claims about scraping and sealing.                                      *)
(***************************************************************************)
ListEntries == DOMAIN scrape.snapshot.lists
\* seal_results has written the snapshot of 2020-01-01 .. 2020-01-02 at page
\* size 100 and no rendered page showed a result
ZeroResultRun ==
    /\ scrape.pc = "sealed"
    /\ scrape.initial_date = <<2020, 1, 1>>
    /\ scrape.final_date = <<2020, 1, 2>>
    /\ scrape.page_size = 100
    /\ \A r \in scrape.rendered : r[2] = <<>>

\* C12 as stated: the snapshot of the zero-result interval holds two
\* empty-list entries and total_cases = 0.
C12_TwoEmptyEntries ==
    ZeroResultRun =>
        /\ Cardinality(ListEntries) = 2
        /\ \A k \in ListEntries : scrape.snapshot.lists[k] = <<>>
        /\ scrape.snapshot.total_cases = 0

\* C12 amended: the two days are one window of the 365-day split and the
\* window has one page, so the snapshot holds exactly one list entry, keyed
\* 2020-01-01-to-2020-01-02_1; it is empty, total_cases = 0 and nothing is
\* raised.
C12_OneEmptyEntry ==
    ZeroResultRun =>
        /\ ListEntries = {<<(<<2020, 1, 1>>), "-to-", (<<2020, 1, 2>>), 1>>}
        /\ \A k \in ListEntries : scrape.snapshot.lists[k] = <<>>
        /\ scrape.snapshot.total_cases = 0

\* C12 witness: such a snapshot was written.
C12_Witness == ZeroResultRun /\ scrape.rendered # {}

\* C13 (as claimed): an exception raised inside one unit of work does not
\* end the batch; here the unit is the scraping of one date window and the
\* batch driver is seal_results.
C13_UnitFailureDoesNotEndBatch == scrape.pc # "raised"

KeySeparator(k) == k[2]
\* C25: every list-valued entry written for a window (start, end) and a
\* 1-based page number p has the key "{start}-to-{end}_{p}", on the first
\* page and on every later page.
C25_OneKeyFormat ==
    scrape.pc \in {"scraping", "sealed"} =>
        \A k \in DOMAIN scrape.data :
            /\ KeySeparator(k) = "-to-"
            /\ \E i \in DOMAIN scrape.date_ranges :
                  k[1] = scrape.date_ranges[i][1]
                    /\ k[3] = scrape.date_ranges[i][2]
            /\ k[4] >= 1

\* C26: for a window whose first page has a next control, scrape_details
\* records every page up to the reported last page when the record count is
\* at most 10,000 and 10000 / page_size pages when it is larger, and returns
\* in both cases.
C26_PagesUpToLastOrCeiling ==
    (/\ scrape.pc # "idle"
     /\ scrape.attempted
     /\ scrape.first.last_page # NoNext
     /\ scrape.cause \notin {"WebDriverException", "IndexError"}) =>
        /\ scrape.cause = "none"
        /\ scrape.pages = IF scrape.first.record_number <= RecordCeiling
                           THEN scrape.first.last_page
                           ELSE RecordCeiling \div scrape.page_size

\* the sum of the lengths of the list-valued entries of the snapshot
RECURSIVE LinksIn(_, _)
LinksIn(lists, keys) ==
    IF keys = {} THEN 0
    ELSE LET k == CHOOSE x \in keys : TRUE
         IN  Len(lists[k]) + LinksIn(lists, keys \ {k})

RECURSIVE LinksInOrder(_, _)
LinksInOrder(lists, keys) ==
    IF keys = <<>> THEN <<>>
    ELSE lists[Head(keys)] \o LinksInOrder(lists, Tail(keys))

\* C31: for a snapshot written by seal_results, extract_case_id yields
\* exactly total_cases identifiers, the identifier of each link of the
\* list-valued entries in the order of the snapshot (no link dropped, none
\* yielded twice), and nothing for the provenance fields.
C31_OneIdentifierPerLinkInOrder ==
    scrape.pc = "listed" =>
        LET links == LinksInOrder(scrape.snapshot.lists, scrape.snapshot.keys)
        IN  /\ Len(scrape.ids) = scrape.snapshot.total_cases
            /\ Len(scrape.ids) = Len(links)
            /\ \A i \in DOMAIN links : scrape.ids[i] = <<links[i]>>
            /\ Range(scrape.snapshot.keys) = ListEntries

\* C31 witness: the identifiers of a snapshot of two windows were listed:
\* three or more, not all the same, from entries of which one is a later
\* page and one is empty.
C31_Witness ==
    /\ scrape.pc = "listed"
    /\ Len(scrape.date_ranges) >= 2
    /\ Len(scrape.ids) >= 3
    /\ \E i, j \in DOMAIN scrape.ids : scrape.ids[i] # scrape.ids[j]
    /\ \E k \in ListEntries : k[4] >= 2 /\ scrape.snapshot.lists[k] # <<>>
    /\ \E k \in ListEntries : scrape.snapshot.lists[k] = <<>>

\* C39 (as claimed): render_page is never invoked on a session that has
\* been quit: a call of seal_results that follows a completed one in the
\* same process renders its date windows through a live session and no
\* page load fails on a quit session.
C39_RendersThroughLiveSession ==
    /\ scrape.pc = "scraping" => scrape.session = "live"
    /\ scrape.pc = "raised" => ~scrape.on_quit

-----------------------------------------------------------------------------
(***************************************************************************)
(* Claims about the snapshot path.                                         *)
(***************************************************************************)
Parameters(k) ==
    <<k.base_dir, k.collection, k.nature_suit, k.initial_date, k.final_date>>
Defaulted(k) == k.hash_filename = NoArg /\ k.json_details_folder = NoArg
PathsOf(pars) ==
    {made.runs[i].path :
        i \in {j \in DOMAIN made.runs :
                  Parameters(made.runs[j].kwargs) = pars}}

\* C22 (as claimed): the snapshot path depends only on base directory,
\* collection, category, initial_date and final_date: runs with the same five
\* values write the same file, so one snapshot exists for them.
C22_PathIsFunctionOfParameters ==
    \A i \in DOMAIN made.runs :
        Cardinality(PathsOf(Parameters(made.runs[i].kwargs))) = 1

\* C22 (amended): among the runs that pass neither hash_filename nor
\* json_details_folder, runs with the same five values write the same
\* file, whatever their other arguments.
C22_DefaultPathIsFunctionOfParameters ==
    \A i, j \in DOMAIN made.runs :
        (/\ Defaulted(made.runs[i].kwargs)
         /\ Defaulted(made.runs[j].kwargs)
         /\ Parameters(made.runs[i].kwargs) = Parameters(made.runs[j].kwargs))
            => made.runs[i].path = made.runs[j].path

\* C22 witness: two runs with the same five values and different page
\* sizes, neither overriding the name or the folder, have left one file.
C22_Witness ==
    /\ Len(made.runs) = 2
    /\ Defaulted(made.runs[1].kwargs) /\ Defaulted(made.runs[2].kwargs)
    /\ Parameters(made.runs[1].kwargs) = Parameters(made.runs[2].kwargs)
    /\ made.runs[1].kwargs.page_size # made.runs[2].kwargs.page_size
    /\ Cardinality(made.paths) = 1
=============================================================================
